---------------------------- MODULE Spec2Model ----------------------------
(***************************************************************************)
(* A model of the NUS NextBus gateway's caching and rate-limiting layer:   *)
(* CacheService (src/src/services/cache.ts), the rate limiter factory      *)
(* (rate-limiter.ts, src/unnamed/part_001) and the middleware order of     *)
(* src/src/index.ts and of the route modules.                              *)
(*                                                                         *)
(* Text (cache keys, serialized JSON) is a sequence of one-character       *)
(* strings.  Time is in milliseconds, as Date.now() gives it.              *)
(***************************************************************************)
EXTENDS Integers, Sequences, FiniteSets, TLC

VARIABLES
    cacheEnabled,   \* config.cache.enabled
    redisUrlSet,    \* config.redis.url is set
    redis,          \* CacheService.redis is not null
    redisUp,        \* the shared store answers commands
    closed,         \* redis.quit() was carried out
    memoryCache,    \* CacheService.memoryCache: key -> [value, expiresAt]
    redisStore,     \* the shared store's string keys: key -> [value, expireAt]
    now,            \* Date.now()
    lastOp,         \* the last CacheService call and what the caller got
    lastSet,        \* per key: the last set that the backend carried out
    rateLimitEnabled, \* config.rateLimit.enabled
    rlMax,          \* config.rateLimit.maxRequests
    rlWindowMs,     \* config.rateLimit.windowMs
    memHits,        \* per limiter, its MemoryStore: client -> [count, resetTime]
    rlRedis,        \* the shared store's counters: redis key -> [count, expireAt]
    req,            \* the request in the middleware chain
    lastCheck,      \* the last gate decision
    checks,         \* per limiter and client: the checks made in its window
    sent,           \* the number of requests received
    flights,        \* rate-limit checks in flight on the gateway's instances
    instHits,       \* per instance and limiter, its MemoryStore: client -> [count, until]
    work,           \* the route handler's run for the request in the chain
    alive,          \* the gateway process is running
    fault,          \* the error handed to errorHandler
    replies,        \* the replies errorHandler has produced for it
    shutdown,       \* gracefulShutdown: its phase and the time it began
    bodies,         \* two request bodies of POST /api/routes/compute
    keyed,          \* the cache keys computed for them
    boot,           \* the startup: the credentials, its phase and exit code
    runs            \* two concurrent runs of one handler, and what the upstream returned

vars == <<cacheEnabled, redisUrlSet, redis, redisUp, closed, memoryCache,
          redisStore, now, lastOp, lastSet, rateLimitEnabled, rlMax, rlWindowMs,
          memHits, rlRedis, req, lastCheck, checks, sent, flights, instHits, work,
          alive, fault, replies, shutdown, bodies, keyed, boot, runs>>

cacheVars == <<cacheEnabled, redisUrlSet, redis, redisUp, closed, memoryCache,
               redisStore, lastOp, lastSet>>

limiterVars == <<rateLimitEnabled, rlMax, rlWindowMs, memHits, rlRedis, req,
                 lastCheck, checks, sent>>

flightVars == <<flights, instHits>>

handlerVars == <<work, alive>>

errorVars == <<fault, replies>>

shutdownVars == <<shutdown, boot>>

keyVars == <<bodies, keyed, runs>>

-----------------------------------------------------------------------------
(* Bounds of the model.                                                    *)

\* The cache's clock stops here (milliseconds).
MaxCacheTime == 2000

\* The Date.now() step of the cache's clock.
CacheStepMs == 1000

\* The largest ttlSeconds a caller passes.
MaxTtl == 1

\* Stand-in for config.cache.defaultTTL (CACHE_DEFAULT_TTL, 300 by default).
DefaultTTL == 2

\* The limiter's clock stops here (milliseconds).
MaxLimiterTime == 80000

\* The Date.now() step of the limiter's clock.
LimiterStepMs == 35000

\* The requests the gateway receives.
MaxRequests == 5

\* Stand-ins for RATE_LIMIT_MAX_REQUESTS (120 by default): one setting below
\* the strict tiers, one above them.
GlobalMaxLow == 2
GlobalMaxHigh == 4

\* Stand-ins for the strict tiers' maxRequests (800 and 30).
RoutesMax == 3
DirectionsMax == 1

-----------------------------------------------------------------------------
(* JavaScript values handed to the cache.                                  *)

JNull      == [t |-> "null",      n |-> 0, s |-> <<>>]
JNum(i)    == [t |-> "number",    n |-> i, s |-> <<>>]
JStr(str)  == [t |-> "string",    n |-> 0, s |-> str]
JFalse     == [t |-> "boolean",   n |-> 0, s |-> <<>>]
JTrue      == [t |-> "boolean",   n |-> 1, s |-> <<>>]
\* undefined: JSON.stringify gives undefined, not text
JUndefined == [t |-> "undefined", n |-> 0, s |-> <<>>]
\* an object that refers to itself: JSON.stringify throws
JCircular  == [t |-> "circular",  n |-> 0, s |-> <<>>]

Quote     == "\""
Backslash == "\\"

\* The JSON values of the model: null, a falsy number, and a string that
\* needs escaping.
JsonValues == {JNull, JNum(0), JStr(<<"a", Quote>>)}

JsValues == JsonValues \cup {JUndefined, JCircular}

Digits == <<"0", "1", "2", "3", "4", "5", "6", "7", "8", "9">>

RECURSIVE Escape(_)
Escape(str) ==
    IF str = <<>> THEN <<>>
    ELSE IF Head(str) \in {Quote, Backslash}
         THEN <<Backslash, Head(str)>> \o Escape(Tail(str))
         ELSE <<Head(str)>> \o Escape(Tail(str))

\* JSON.stringify(value): [threw, defined, text]
Stringify(v) ==
    CASE v.t = "null"      -> [threw |-> FALSE, defined |-> TRUE, text |-> <<"n", "u", "l", "l">>]
      [] v.t = "number"    -> [threw |-> FALSE, defined |-> TRUE, text |-> <<Digits[v.n + 1]>>]
      [] v.t = "boolean"   -> [threw |-> FALSE, defined |-> TRUE,
                               text |-> IF v.n = 1 THEN <<"t", "r", "u", "e">>
                                        ELSE <<"f", "a", "l", "s", "e">>]
      [] v.t = "string"    -> [threw |-> FALSE, defined |-> TRUE,
                               text |-> <<Quote>> \o Escape(v.s) \o <<Quote>>]
      [] v.t = "undefined" -> [threw |-> FALSE, defined |-> FALSE, text |-> <<>>]
      [] OTHER             -> [threw |-> TRUE,  defined |-> FALSE, text |-> <<>>]

\* The body of a JSON string after its opening quote: [ok, s]
RECURSIVE ParseStringBody(_)
ParseStringBody(rest) ==
    IF rest = <<>> THEN [ok |-> FALSE, s |-> <<>>]
    ELSE IF Head(rest) = Quote
         THEN [ok |-> Tail(rest) = <<>>, s |-> <<>>]
    ELSE IF Head(rest) = Backslash
         THEN IF Len(rest) < 2 \/ rest[2] \notin {Quote, Backslash}
              THEN [ok |-> FALSE, s |-> <<>>]
              ELSE LET r == ParseStringBody(SubSeq(rest, 3, Len(rest)))
                   IN  [ok |-> r.ok, s |-> <<rest[2]>> \o r.s]
    ELSE LET r == ParseStringBody(Tail(rest))
         IN  [ok |-> r.ok, s |-> <<Head(rest)>> \o r.s]

\* JSON.parse(text): [threw, value]
JsonParse(text) ==
    IF text = <<"n", "u", "l", "l">> THEN [threw |-> FALSE, value |-> JNull]
    ELSE IF text = <<"t", "r", "u", "e">> THEN [threw |-> FALSE, value |-> JTrue]
    ELSE IF text = <<"f", "a", "l", "s", "e">> THEN [threw |-> FALSE, value |-> JFalse]
    ELSE IF Len(text) = 1 /\ \E d \in 1..10 : Digits[d] = text[1]
         THEN [threw |-> FALSE, value |-> JNum((CHOOSE d \in 1..10 : Digits[d] = text[1]) - 1)]
    ELSE IF text # <<>> /\ Head(text) = Quote
         THEN LET r == ParseStringBody(Tail(text))
              IN  IF r.ok THEN [threw |-> FALSE, value |-> JStr(r.s)]
                  ELSE [threw |-> TRUE, value |-> JNull]
    ELSE [threw |-> TRUE, value |-> JNull]

\* What the memory cache holds for a serialized value: a string, or undefined.
\* JSON.parse(undefined) throws a SyntaxError.
ParseStored(ser) ==
    IF ser.defined THEN JsonParse(ser.text) ELSE [threw |-> TRUE, value |-> JNull]

\* ioredis sends an undefined argument as the empty string.
RedisArg(ser) == IF ser.defined THEN ser.text ELSE <<>>

-----------------------------------------------------------------------------
(* Cache keys and patterns.                                                *)

Keys == {<<"b", ":", "p">>, <<"l", ":", "s">>}

Patterns == {<<"b", ":", "*">>, <<"*">>}

\* The ttlSeconds argument; NoTtl is an omitted argument.
NoTtl == -1
Ttls == {NoTtl} \cup (0..MaxTtl)

\* The set calls of the model: every value and ttl on the first key, one
\* value with a ttl of one second on the second.
SetCalls ==
    {<<k, v, ttl>> \in Keys \X JsValues \X Ttls :
        k = <<"b", ":", "p">> \/ (v = JNum(0) /\ ttl = 1)}

\* Variant: the pattern taken as the prefix, its '*' included.
RemoveFirstStarNot(p) == p

\* String.prototype.replace('*', ''): the first '*' only.
RECURSIVE RemoveFirstStar(_)
RemoveFirstStar(p) ==
    IF p = <<>> THEN <<>>
    ELSE IF Head(p) = "*" THEN Tail(p)
    ELSE <<Head(p)>> \o RemoveFirstStar(Tail(p))

StartsWith(key, prefix) ==
    Len(prefix) <= Len(key) /\ SubSeq(key, 1, Len(prefix)) = prefix

\* The shared store's KEYS pattern: '*' matches any run of characters.
RECURSIVE GlobMatch(_, _)
GlobMatch(p, key) ==
    IF p = <<>> THEN key = <<>>
    ELSE IF Head(p) = "*"
         THEN GlobMatch(Tail(p), key) \/ (key # <<>> /\ GlobMatch(p, Tail(key)))
    ELSE key # <<>> /\ Head(p) = Head(key) /\ GlobMatch(Tail(p), Tail(key))

\* A function without the keys of a set.
Without(f, ks) == [k \in DOMAIN f \ ks |-> f[k]]

\* A function with one key set.
With(f, k, e) == [x \in DOMAIN f \cup {k} |-> IF x = k THEN e ELSE f[x]]

EmptyMap == [k \in {} |-> 0]


-----------------------------------------------------------------------------
(* CacheService.                                                           *)

\* The constructor: the client exists when a URL is configured and
\* new Redis(...) did not throw.  ioredis connects in the background, so an
\* unreachable store is reported by the 'error' event, not by a throw.
Constructed(urlSet, ctorThrew) == urlSet /\ ~ctorThrew

\* A command sent to the shared store is carried out.
RedisOk == redisUp /\ ~closed

\* The store's native TTL: a key is gone once its expiry time has passed.
RedisExpired(e, t) == t > e.expireAt

RedisHas(k) == k \in DOMAIN redisStore /\ ~RedisExpired(redisStore[k], now)

\* Variant: no test of the expiry.
MemoryFreshAlways(e, t) == TRUE

\* The memory cache's test of an entry: cached.expiresAt > Date.now()
MemoryFresh(e, t) == e.expiresAt > t

\* What a call gives back: value is the caller's result (null when there is
\* none), threw that an exception is on its way to the caller, error what
\* raised it ("store": the shared store's command, "json": JSON.stringify or
\* JSON.parse, "none"), touched that a backend was used.
Outcome(value, threw, error, touched, mem, store) ==
    [value |-> value, threw |-> threw, error |-> error, touched |-> touched,
     mem |-> mem, store |-> store]

Done(value, mem, store) == Outcome(value, FALSE, "none", TRUE, mem, store)

Untouched == Outcome(JNull, FALSE, "none", FALSE, memoryCache, redisStore)

Thrown(error) == Outcome(JNull, TRUE, error, error = "store", memoryCache, redisStore)

\* Variant: the catch block throws the error on.
CatchRethrow(o) == o

\* The catch blocks of get, set, del and delPattern: log, give null.
Catch(o) == IF o.threw THEN [o EXCEPT !.threw = FALSE, !.value = JNull] ELSE o

\* get's try block
TryGet(k) ==
    IF redis
    THEN IF ~RedisOk THEN Thrown("store")
         ELSE IF RedisHas(k) /\ redisStore[k].value # <<>>
              THEN LET p == JsonParse(redisStore[k].value)
                   IN  IF p.threw THEN [Thrown("json") EXCEPT !.touched = TRUE]
                       ELSE Done(p.value, memoryCache, redisStore)
              ELSE Done(JNull, memoryCache, redisStore)
    ELSE IF k \in DOMAIN memoryCache /\ MemoryFresh(memoryCache[k], now)
         THEN LET p == ParseStored(memoryCache[k].value)
              IN  IF p.threw THEN [Thrown("json") EXCEPT !.touched = TRUE]
                  ELSE Done(p.value, memoryCache, redisStore)
         ELSE IF k \in DOMAIN memoryCache
              THEN Done(JNull, Without(memoryCache, {k}), redisStore)
              ELSE Done(JNull, memoryCache, redisStore)

Get(k) == IF ~cacheEnabled THEN Untouched ELSE Catch(TryGet(k))

\* ttlSeconds ?? config.cache.defaultTTL
EffectiveTtl(ttl) == IF ttl = NoTtl THEN DefaultTTL ELSE ttl

\* Date.now() + ttl * 1000, and the store's EX ttl
ExpiryOf(t, ttl) == t + ttl * 1000

\* Variant: a set that writes to the local map while the shared store does
\* not answer.
TrySetFallback(k, v, ttl) ==
    LET ser == Stringify(v)
    IN  IF ser.threw THEN Thrown("json")
        ELSE IF redis /\ RedisOk /\ ttl > 0
             THEN Done(JNull, memoryCache,
                          With(redisStore, k, [value |-> RedisArg(ser),
                                               expireAt |-> ExpiryOf(now, ttl)]))
             ELSE Done(JNull, With(memoryCache, k, [value |-> [defined |-> ser.defined,
                                                           text |-> ser.text],
                                                expiresAt |-> ExpiryOf(now, ttl)]),
                          redisStore)

\* set's try block
TrySet(k, v, ttl) ==
    LET ser == Stringify(v)
    IN  IF ser.threw THEN Thrown("json")
        ELSE IF redis
             THEN IF ~RedisOk \/ ttl <= 0 THEN Thrown("store")  \* EX 0: invalid expire time
                  ELSE Done(JNull, memoryCache,
                               With(redisStore, k, [value |-> RedisArg(ser),
                                                    expireAt |-> ExpiryOf(now, ttl)]))
             ELSE Done(JNull, With(memoryCache, k, [value |-> [defined |-> ser.defined,
                                                           text |-> ser.text],
                                                expiresAt |-> ExpiryOf(now, ttl)]),
                          redisStore)

\* Variant: set without the test of config.cache.enabled.
SetUnchecked(k, v, ttl) == Catch(TrySet(k, v, EffectiveTtl(ttl)))

Set(k, v, ttl) ==
    IF ~cacheEnabled THEN Untouched ELSE Catch(TrySet(k, v, EffectiveTtl(ttl)))

\* Variant: a del that empties the local map.
TryDelAll(k) ==
    IF redis
    THEN IF ~RedisOk THEN Thrown("store")
         ELSE Done(JNull, memoryCache, Without(redisStore, {k}))
    ELSE Done(JNull, EmptyMap, redisStore)

\* del's try block
TryDel(k) ==
    IF redis
    THEN IF ~RedisOk THEN Thrown("store")
         ELSE Done(JNull, memoryCache, Without(redisStore, {k}))
    ELSE Done(JNull, Without(memoryCache, {k}), redisStore)

Del(k) == Catch(TryDel(k))

\* The keys delPattern removes from the memory cache.
MemoryMatches(p) ==
    {k \in DOMAIN memoryCache : StartsWith(k, RemoveFirstStar(p))}

\* The keys redis.keys(pattern) gives.
RedisMatches(p) == {k \in DOMAIN redisStore : RedisHas(k) /\ GlobMatch(p, k)}

\* delPattern's try block
TryDelPattern(p) ==
    IF redis
    THEN IF ~RedisOk THEN Thrown("store")
         ELSE Done(JNull, memoryCache,
                      Without(redisStore, RedisMatches(p)))
    ELSE Done(JNull, Without(memoryCache, MemoryMatches(p)),
                 redisStore)

DelPattern(p) == Catch(TryDelPattern(p))

\* close(): quit the client when there is one, then clear the map.  There is
\* no try block: a failing quit() reaches the caller before the map is cleared.
Close ==
    IF redis /\ ~RedisOk THEN Thrown("store")
    ELSE Done(JNull, EmptyMap, redisStore)

-----------------------------------------------------------------------------
(* The record of the last call.                                            *)

OpRecord(op, k, v, ttl, o) ==
    [op |-> op, key |-> k, arg |-> v, ttl |-> ttl, value |-> o.value,
     raised |-> o.threw, error |-> o.error, touched |-> o.touched]

NoOp == [op |-> "none", key |-> <<>>, arg |-> JNull, ttl |-> NoTtl, value |-> JNull,
         raised |-> FALSE, error |-> "none", touched |-> FALSE]

CacheGet(k) ==
    LET o == Get(k)
    IN  /\ memoryCache' = o.mem
        /\ redisStore' = o.store
        /\ lastOp' = OpRecord("get", k, JNull, NoTtl, o)
        /\ UNCHANGED <<cacheEnabled, redisUrlSet, redis, redisUp, closed, now, lastSet>>
        /\ UNCHANGED <<limiterVars, flightVars, handlerVars, errorVars, shutdownVars, keyVars>>

CacheSet(k, v, ttl) ==
    LET o == Set(k, v, ttl)
    IN  /\ memoryCache' = o.mem
        /\ redisStore' = o.store
        /\ lastOp' = OpRecord("set", k, v, EffectiveTtl(ttl), o)
        /\ lastSet' = IF o.touched /\ o.error = "none"
                      THEN With(lastSet, k, [value |-> v, given |-> ttl, at |-> now,
                                                deadline |-> now + 1000 * (IF ttl = NoTtl
                                                                           THEN DefaultTTL
                                                                           ELSE ttl)])
                      ELSE lastSet
        /\ UNCHANGED <<cacheEnabled, redisUrlSet, redis, redisUp, closed, now>>
        /\ UNCHANGED <<limiterVars, flightVars, handlerVars, errorVars, shutdownVars, keyVars>>

CacheDel(k) ==
    LET o == Del(k)
    IN  /\ memoryCache' = o.mem
        /\ redisStore' = o.store
        /\ lastOp' = OpRecord("del", k, JNull, NoTtl, o)
        /\ lastSet' = IF o.error # "none" THEN lastSet ELSE Without(lastSet, {k})
        /\ UNCHANGED <<cacheEnabled, redisUrlSet, redis, redisUp, closed, now>>
        /\ UNCHANGED <<limiterVars, flightVars, handlerVars, errorVars, shutdownVars, keyVars>>

CacheDelPattern(p) ==
    LET o == DelPattern(p)
    IN  /\ memoryCache' = o.mem
        /\ redisStore' = o.store
        /\ lastOp' = OpRecord("delPattern", p, JNull, NoTtl, o)
        /\ lastSet' = IF o.error # "none" THEN lastSet
                      ELSE Without(lastSet, (DOMAIN memoryCache \ DOMAIN o.mem)
                                            \cup (DOMAIN redisStore \ DOMAIN o.store))
        /\ UNCHANGED <<cacheEnabled, redisUrlSet, redis, redisUp, closed, now>>
        /\ UNCHANGED <<limiterVars, flightVars, handlerVars, errorVars, shutdownVars, keyVars>>

CacheClose ==
    LET o == Close
    IN  /\ memoryCache' = o.mem
        /\ closed' = (closed \/ (redis /\ ~o.threw))
        /\ lastOp' = OpRecord("close", <<>>, JNull, NoTtl, o)
        /\ lastSet' = IF redis THEN lastSet ELSE EmptyMap
        /\ UNCHANGED <<cacheEnabled, redisUrlSet, redis, redisUp, redisStore, now>>
        /\ UNCHANGED <<limiterVars, flightVars, handlerVars, errorVars, shutdownVars, keyVars>>

\* Time passes; the shared store drops the keys whose TTL has run out.
TickCache ==
    /\ now + CacheStepMs <= MaxCacheTime
    /\ now' = now + CacheStepMs
    /\ redisStore' = Without(redisStore,
                             {k \in DOMAIN redisStore :
                                 RedisExpired(redisStore[k], now + CacheStepMs)})
    /\ lastOp' = NoOp
    /\ UNCHANGED <<cacheEnabled, redisUrlSet, redis, redisUp, closed, memoryCache, lastSet>>
    /\ UNCHANGED <<limiterVars, flightVars, handlerVars, errorVars, shutdownVars, keyVars>>

\* The shared store becomes unreachable, or reachable again.
RedisFlip ==
    /\ redisUrlSet
    /\ redisUp' = ~redisUp
    /\ lastOp' = NoOp
    /\ UNCHANGED <<cacheEnabled, redisUrlSet, redis, closed, memoryCache, redisStore,
                   now, lastSet>>
    /\ UNCHANGED <<limiterVars, flightVars, handlerVars, errorVars, shutdownVars, keyVars>>


-----------------------------------------------------------------------------
(* errorHandler (src/src/middleware/error-handler.ts).                     *)

\* An error object: isAxiosError is absent, false or true; response says
\* whether err.response is set, status is err.response.status, code err.code.
ErrObj(isAxios, response, status, code) ==
    [isAxiosError |-> isAxios, response |-> response, status |-> status, code |-> code]

\* An axios error with a response of status s.
AxiosHttp(s) == ErrObj("true", TRUE, s, "ERR_BAD_RESPONSE")

\* An axios error without a response.
AxiosNoResponse(code) == ErrObj("true", FALSE, 0, code)

\* res.json() after the reply was sent: ERR_HTTP_HEADERS_SENT, not an axios error.
HeadersSent == ErrObj("absent", FALSE, 0, "ERR_HTTP_HEADERS_SENT")

NoFault == ErrObj("absent", FALSE, 0, "none")

Statuses == {200, 304, 399, 400, 404, 429, 499, 500, 503, 599}

Codes == {"ECONNABORTED", "ETIMEDOUT", "ECONNREFUSED", "ENOTFOUND"}

\* The errors handed to errorHandler.
Faults ==
    {ErrObj(a, r, IF r THEN s ELSE 0, c) :
        a \in {"absent", "false", "true"}, r \in BOOLEAN, s \in Statuses, c \in Codes}

\* Variant: a status of 400 is not taken for a client error.
ErrorStatusAbove400(e) ==
    IF e.isAxiosError = "true"
    THEN IF e.response
         THEN IF e.status > 400 /\ e.status < 500 THEN e.status ELSE 502
         ELSE IF e.code \in {"ECONNABORTED", "ETIMEDOUT"} THEN 504 ELSE 503
    ELSE 500

\* The status of errorHandler's reply.
ErrorStatus(e) ==
    IF e.isAxiosError = "true"
    THEN IF e.response
         THEN IF e.status >= 400 /\ e.status < 500 THEN e.status ELSE 502
         ELSE IF e.code \in {"ECONNABORTED", "ETIMEDOUT"} THEN 504 ELSE 503
    ELSE 500

\* errorHandler(err, req, res, _next): one res.status(...).json(...), no next().
ErrorHandlerCall ==
    /\ replies = <<>>
    /\ replies' = Append(replies, ErrorStatus(fault))
    /\ UNCHANGED fault
    /\ UNCHANGED <<cacheVars, limiterVars, flightVars, handlerVars, shutdownVars, keyVars, now>>

\* The next error reaches errorHandler.
NextFault(e) ==
    /\ replies # <<>>
    /\ fault' = e
    /\ replies' = <<>>
    /\ UNCHANGED <<cacheVars, limiterVars, flightVars, handlerVars, shutdownVars, keyVars, now>>

-----------------------------------------------------------------------------
(* The rate limiter factory and the middleware chain.                      *)

Clients == {"a", "b"}

\* The limiters: app.use(createRateLimiter()) and each router's
\* router.use(createStrictRateLimiter(max, 60000)).
Limiters == {"global", "routes", "directions"}

StrictWindowMs == 60000

\* RATE_LIMIT_WINDOW_MS: the default, and a setting that is no whole second.
DefaultWindowMs == 60000
OddWindowMs == 90500

WindowChoices == {DefaultWindowMs, OddWindowMs}

MaxOf(L) ==
    CASE L = "global"     -> rlMax
      [] L = "routes"     -> RoutesMax
      [] OTHER            -> DirectionsMax

WindowOf(L) == IF L = "global" THEN rlWindowMs ELSE StrictWindowMs

\* Variant: the seconds rounded down.
FloorSeconds(ms) == ms \div 1000

\* Math.ceil(windowMs / 1000)
CeilSeconds(ms) == (ms + 999) \div 1000

\* new RedisStore({ sendCommand }): no prefix is given, so every limiter's
\* store uses the library's default key prefix.
StorePrefix(L) == "rl:"

\* Variant: a key that leaves the client's address out.
RedisKeyOfAll(L, c) == <<StorePrefix(L), "ip">>

\* The key of a client's counter in the shared store: prefix + req.ip
RedisKey(L, c) == <<StorePrefix(L), c>>

RedisKeys == {RedisKey(L, c) : L \in Limiters, c \in Clients}

NoHits == [count |-> 0, until |-> 0]

\* What limiter L's store holds for client c at time t: [count, until].
Bucket(L, c) ==
    IF redis
    THEN IF RedisKey(L, c) \in DOMAIN rlRedis /\ ~(now > rlRedis[RedisKey(L, c)].until)
         THEN rlRedis[RedisKey(L, c)] ELSE NoHits
    ELSE IF c \in DOMAIN memHits[L] /\ memHits[L][c].until > now
         THEN memHits[L][c] ELSE NoHits

Count(L, c) == Bucket(L, c).count

\* Variant: a bucket that has gone over the limit starts again at the next hit.
IncrementedAfresh(L, c) ==
    LET b == Bucket(L, c)
    IN  IF b.count = 0 \/ b.count > MaxOf(L)
        THEN [count |-> 1, until |-> now + WindowOf(L)]
        ELSE [count |-> b.count + 1, until |-> b.until]

\* store.increment(key): one more hit; the first hit of a window sets its end.
Incremented(L, c) ==
    LET b == Bucket(L, c)
    IN  IF b.count = 0 THEN [count |-> 1, until |-> now + WindowOf(L)]
        ELSE [count |-> b.count + 1, until |-> b.until]

\* totalHits > max: the handler answers 429; otherwise next()
Admits(L, hits) == hits <= MaxOf(L)

\* The body of the 429 answer.
RetryAfter(L) == CeilSeconds(WindowOf(L))

\* The router a request path belongs to, and the routers index.ts mounts.
Groups == {"health", "bus", "lta", "routes", "directions"}

Mounted == {"bus", "lta", "routes"}

\* Variant: no router applies a limiter of its own.
GateOfNone(g) == {}

\* The limiters a router applies with router.use.
GateOf(g) == IF g \in {"routes", "directions"} THEN {g} ELSE {}

NoCheck == [limiter |-> "none", client |-> "none", id |-> 0, count |-> 0,
            admitted |-> TRUE, status |-> 0, retryAfter |-> 0]

Idle == [stage |-> "idle", client |-> "none", group |-> "none", status |-> 0,
         passed |-> {}]

\* The fixed window as the limiter's own checks define it: the checks limiter
\* L made for client c since the first check of the window that is open.
CheckedNow(L, c) ==
    IF c \in DOMAIN checks[L] /\ now < checks[L][c].start + WindowOf(L)
    THEN [n |-> checks[L][c].n + 1, start |-> checks[L][c].start]
    ELSE [n |-> 1, start |-> now]

\* Variant: the factory ignores the switch.
PassThroughNever == FALSE

\* if (!config.rateLimit.enabled): the factory returns (req, res, next) => next()
PassThrough == ~rateLimitEnabled

\* The error of a command the shared store did not carry out: no axios error.
StoreFault == ErrObj("absent", FALSE, 0, "ECONNREFUSED")

\* Variant: the rejected increment is dropped and the request is left
\* without an answer.
StoreErrorPending(r) == [r EXCEPT !.stage = "pending"]

\* The store's increment was rejected: the limiter's middleware hands the
\* error to next(err), and errorHandler answers the request.
StoreErrorOutcome(r) == [r EXCEPT !.stage = "done", !.status = ErrorStatus(StoreFault)]

\* One gate deciding on the request in the chain: pass on, or answer 429; with
\* a RedisStore whose store does not answer, the check fails.
Gate(L, onward) ==
    IF PassThrough
    THEN /\ req' = [req EXCEPT !.stage = onward]
         /\ UNCHANGED <<memHits, rlRedis, lastCheck, checks>>
    ELSE IF redis /\ ~RedisOk
    THEN /\ req' = StoreErrorOutcome(req)
         /\ checks' = [checks EXCEPT ![L] = With(checks[L], req.client,
                                                  CheckedNow(L, req.client))]
         /\ lastCheck' = [limiter |-> L, client |-> req.client, id |-> sent,
                          count |-> 0, admitted |-> FALSE,
                          status |-> ErrorStatus(StoreFault), retryAfter |-> 0]
         /\ UNCHANGED <<memHits, rlRedis>>
    ELSE LET b  == Incremented(L, req.client)
             ok == Admits(L, b.count)
         IN  /\ IF redis
                THEN /\ rlRedis' = With(rlRedis, RedisKey(L, req.client), b)
                     /\ UNCHANGED memHits
                ELSE /\ memHits' = [memHits EXCEPT ![L] = With(memHits[L], req.client, b)]
                     /\ UNCHANGED rlRedis
             /\ checks' = [checks EXCEPT ![L] = With(checks[L], req.client,
                                                      CheckedNow(L, req.client))]
             /\ lastCheck' = [limiter |-> L, client |-> req.client, id |-> sent,
                              count |-> b.count, admitted |-> ok,
                              status |-> IF ok THEN 0 ELSE 429,
                              retryAfter |-> IF ok THEN 0 ELSE RetryAfter(L)]
             /\ req' = IF ok
                       THEN [req EXCEPT !.stage = onward, !.passed = @ \cup {L}]
                       ELSE [req EXCEPT !.stage = "done", !.status = 429]

\* A request arrives.
Receive(c, g) ==
    /\ req.stage \in {"idle", "done"}
    /\ sent < MaxRequests
    /\ sent' = sent + 1
    /\ req' = [stage |-> "global", client |-> c, group |-> g, status |-> 0,
               passed |-> {}]
    /\ lastCheck' = NoCheck
    /\ UNCHANGED <<rateLimitEnabled, rlMax, rlWindowMs, memHits, rlRedis, checks, now>>
    /\ UNCHANGED <<cacheVars, flightVars, handlerVars, errorVars, shutdownVars, keyVars>>

\* app.use(createRateLimiter())
GlobalGate ==
    /\ req.stage = "global"
    /\ Gate("global", "route")
    /\ UNCHANGED <<rateLimitEnabled, rlMax, rlWindowMs, sent, now>>
    /\ UNCHANGED <<cacheVars, flightVars, handlerVars, errorVars, shutdownVars, keyVars>>

\* app.get('/health'), the mounted routers, and the 404 handler.
Route ==
    /\ req.stage = "route"
    /\ req' = IF req.group = "health"
              THEN [req EXCEPT !.stage = "done", !.status = 200]
              ELSE IF req.group \notin Mounted
              THEN [req EXCEPT !.stage = "done", !.status = 404]
              ELSE IF GateOf(req.group) # {}
              THEN [req EXCEPT !.stage = "strict"]
              ELSE [req EXCEPT !.stage = "done", !.status = 200]
    /\ UNCHANGED <<rateLimitEnabled, rlMax, rlWindowMs, memHits, rlRedis, lastCheck,
                   checks, sent, now>>
    /\ UNCHANGED <<cacheVars, flightVars, handlerVars, errorVars, shutdownVars, keyVars>>

\* router.use(createStrictRateLimiter(max, 60000))
StrictGate ==
    /\ req.stage = "strict"
    /\ Gate(CHOOSE L \in GateOf(req.group) : TRUE, "handler")
    /\ UNCHANGED <<rateLimitEnabled, rlMax, rlWindowMs, sent, now>>
    /\ UNCHANGED <<cacheVars, flightVars, handlerVars, errorVars, shutdownVars, keyVars>>

\* The route handler answers.
Handle ==
    /\ req.stage = "handler"
    /\ req' = [req EXCEPT !.stage = "done", !.status = 200]
    /\ UNCHANGED <<rateLimitEnabled, rlMax, rlWindowMs, memHits, rlRedis, lastCheck,
                   checks, sent, now>>
    /\ UNCHANGED <<cacheVars, flightVars, handlerVars, errorVars, shutdownVars, keyVars>>

\* Time passes between requests; windows that have ended are dropped.
TickLimiter ==
    /\ req.stage \in {"idle", "done"}
    /\ now + LimiterStepMs <= MaxLimiterTime
    /\ now' = now + LimiterStepMs
    /\ memHits' = [L \in Limiters |->
                     Without(memHits[L], {c \in DOMAIN memHits[L] :
                                            memHits[L][c].until <= now + LimiterStepMs})]
    /\ rlRedis' = Without(rlRedis, {k \in DOMAIN rlRedis :
                                      now + LimiterStepMs > rlRedis[k].until})
    /\ checks' = [L \in Limiters |->
                    Without(checks[L], {c \in DOMAIN checks[L] :
                                          checks[L][c].start + WindowOf(L)
                                              <= now + LimiterStepMs})]
    /\ lastCheck' = NoCheck
    /\ req' = Idle
    /\ UNCHANGED <<rateLimitEnabled, rlMax, rlWindowMs, sent>>
    /\ UNCHANGED <<cacheVars, flightVars, handlerVars, errorVars, shutdownVars, keyVars>>

-----------------------------------------------------------------------------
(* Concurrent checks: several gateway instances, each running the limiters *)
(* of rate-limiter.ts, with requests in flight between the store's         *)
(* increment and the handler's decision.                                   *)

\* The gateway's instances (processes).
Instances == {1, 2}

\* The limiters whose checks are in flight.
FlightLimiters == {"global", "routes"}

\* The checks the instances start.
MaxFlights == 3

NoFlights == <<>>

\* The load balancer hands the requests to the instances in turn.
InstanceOf(n) == IF n % 2 = 1 THEN 1 ELSE 2

\* What instance i's limiter L reads for client c: the shared store's counter
\* when a client was given to RedisStore, else the process's own MemoryStore.
InstBucket(i, L, c) ==
    IF redis
    THEN IF RedisKey(L, c) \in DOMAIN rlRedis /\ ~(now > rlRedis[RedisKey(L, c)].until)
         THEN rlRedis[RedisKey(L, c)] ELSE NoHits
    ELSE IF c \in DOMAIN instHits[i][L] /\ instHits[i][L][c].until > now
         THEN instHits[i][L][c] ELSE NoHits

\* Variant: the increment builds on the count read when the check began.
IncrBaseStale(f) == f.seen

\* The count an increment builds on: the store runs the increment and the
\* first-hit expiry as one command (RedisStore's script, sent by sendCommand),
\* and MemoryStore increments within one turn of the event loop.
IncrBase(f) == InstBucket(f.inst, f.limiter, f.client)

\* One more hit on a bucket; the first hit of a window sets its end.
IncrementOn(L, b) ==
    IF b.count = 0 THEN [count |-> 1, until |-> now + WindowOf(L)]
    ELSE [count |-> b.count + 1, until |-> b.until]

\* A request reaches limiter L on instance i.
StartCheck(i, L, c) ==
    /\ ~PassThrough
    /\ Len(flights) < MaxFlights
    /\ flights' = Append(flights,
                         [inst |-> i, limiter |-> L, client |-> c, stage |-> "sent",
                          seen |-> InstBucket(i, L, c), hits |-> 0, until |-> 0,
                          at |-> 0, first |-> FALSE, admitted |-> FALSE])
    /\ UNCHANGED <<instHits, now>>
    /\ UNCHANGED <<cacheVars, limiterVars, handlerVars, errorVars, shutdownVars, keyVars>>

\* The store carries out the increment of check n.
StoreIncrement(n) ==
    /\ n \in DOMAIN flights
    /\ flights[n].stage = "sent"
    /\ LET f    == flights[n]
           base == IncrBase(f)
           b    == IncrementOn(f.limiter, base)
       IN  /\ IF redis
              THEN /\ rlRedis' = With(rlRedis, RedisKey(f.limiter, f.client), b)
                   /\ UNCHANGED instHits
              ELSE /\ instHits' = [instHits EXCEPT ![f.inst][f.limiter] =
                                      With(instHits[f.inst][f.limiter], f.client, b)]
                   /\ UNCHANGED rlRedis
           /\ flights' = [flights EXCEPT ![n] =
                             [f EXCEPT !.stage = "counted", !.hits = b.count,
                                       !.until = b.until, !.at = now,
                                       !.first = (base.count = 0)]]
    /\ UNCHANGED <<rateLimitEnabled, rlMax, rlWindowMs, memHits, req, lastCheck, checks,
                   sent, now>>
    /\ UNCHANGED <<cacheVars, handlerVars, errorVars, shutdownVars, keyVars>>

\* The instance decides on check n from the count the store gave it.
Decide(n) ==
    /\ n \in DOMAIN flights
    /\ flights[n].stage = "counted"
    /\ flights' = [flights EXCEPT ![n] =
                      [@ EXCEPT !.stage = "decided",
                                !.admitted = Admits(flights[n].limiter, flights[n].hits)]]
    /\ UNCHANGED <<instHits, now>>
    /\ UNCHANGED <<cacheVars, limiterVars, handlerVars, errorVars, shutdownVars, keyVars>>

\* Time passes; windows that have ended are dropped.
TickFlights ==
    /\ now + LimiterStepMs <= MaxLimiterTime
    /\ now' = now + LimiterStepMs
    /\ rlRedis' = Without(rlRedis, {k \in DOMAIN rlRedis :
                                      now + LimiterStepMs > rlRedis[k].until})
    /\ instHits' = [i \in Instances |-> [L \in Limiters |->
                      Without(instHits[i][L],
                              {c \in DOMAIN instHits[i][L] :
                                  instHits[i][L][c].until <= now + LimiterStepMs})]]
    /\ UNCHANGED <<rateLimitEnabled, rlMax, rlWindowMs, memHits, req, lastCheck, checks,
                   sent, flights>>
    /\ UNCHANGED <<cacheVars, handlerVars, errorVars, shutdownVars, keyVars>>

-----------------------------------------------------------------------------
(* The proxy handlers: the bus router (src/unnamed/part_003), the LTA      *)
(* router (src/src/routes/google-directions.ts, from line 105) and the     *)
(* routes router (src/src/routes/google-routes.ts).                        *)

\* Stand-in for the handlers' TTLs (86400, 3600, 300, 10, 5, 2 seconds).
HandlerTtl == 1

\* The payloads of the upstreams: a falsy value and a truthy one.
UpstreamData == {JNum(0), JStr(<<"a", Quote>>)}

\* The failures of an upstream call: an answer of 404, an answer of 500, a
\* timeout, a refused connection.
UpstreamErrors ==
    {AxiosHttp(404), AxiosHttp(500), AxiosNoResponse("ECONNABORTED"),
     AxiosNoResponse("ECONNREFUSED")}

\* JavaScript's if (cached): null, 0, false and "" are falsy.
Truthy(v) ==
    CASE v.t = "number"  -> v.n # 0
      [] v.t = "string"  -> v.s # <<>>
      [] v.t = "boolean" -> v.n = 1
      [] OTHER           -> FALSE

\* The cache key a handler builds; a missing parameter gives `...:undefined`.
KeyOf(g, valid) ==
    CASE g = "bus"    -> IF valid THEN <<"b", ":", "p">> ELSE <<"b", ":", "u">>
      [] g = "lta"    -> IF valid THEN <<"l", ":", "s">> ELSE <<"l", ":", "u">>
      [] g = "directions" -> <<"d", ":", "o">>
      [] g = "places" -> <<"g", ":", "p">>
      [] OTHER        -> <<"r", ":", "c">>

\* The routers whose handlers answer 400 for a missing parameter and return.
ReturnsAfterInvalid(g) == g \in {"routes", "directions", "places"}

\* The handlers of the directions router (GET /) and of the places router
\* (GET /details); index.ts mounts neither.
GoogleRouters == {"directions", "places"}

\* The status field of a Google Directions or Places answer.
ApiStatuses == {"OK", "ZERO_RESULTS", "REQUEST_DENIED"}

\* The status an answer of router g's upstream can carry.
ApiStatusesOf(g) == IF g \in GoogleRouters THEN ApiStatuses ELSE {"none"}

\* Variant: the handler does not look at the status.
AcceptedAny(g, s) == TRUE

\* if (data.status !== 'OK' && data.status !== 'ZERO_RESULTS'): the directions
\* handler; if (data.status !== 'OK'): the details handler; the other handlers
\* have no such test.
Accepted(g, s) ==
    \/ g \notin GoogleRouters
    \/ s = "OK"
    \/ s = "ZERO_RESULTS" /\ g = "directions"

\* The routers whose catch block logs and throws the error on.
Rethrows(g) == g \in {"bus", "lta"}

IdleWork ==
    [id |-> 0, pc |-> "idle", key |-> <<>>, replies |-> <<>>, err |-> NoFault,
     data |-> JNull, trail |-> <<>>, api |-> "none"]

\* The handler has not begun for the request in the chain.
Fresh == work.id # sent

\* This step is a step of the handler at pc.
At(pc) == alive /\ req.stage = "handler" /\ work.id = sent /\ work.pc = pc

\* The handler ends with the request answered.
Finish(w, status) ==
    /\ work' = [w EXCEPT !.pc = "finished", !.replies = Append(@, status),
                         !.trail = Append(@, "reply")]
    /\ req' = [req EXCEPT !.stage = "done", !.status = status]

\* The handler begins: it tests the request's parameters.
Enter(valid) ==
    /\ alive /\ req.stage = "handler" /\ Fresh
    /\ LET w == [IdleWork EXCEPT !.id = sent, !.key = KeyOf(req.group, valid)]
       IN  IF valid
           THEN /\ work' = [w EXCEPT !.pc = "lookup"]
                /\ UNCHANGED req
           ELSE IF ReturnsAfterInvalid(req.group)
           THEN Finish(w, 400)
           ELSE /\ work' = [w EXCEPT !.pc = "lookup", !.replies = <<400>>,
                                     !.trail = <<"reply">>]
                /\ req' = [req EXCEPT !.status = 400]
    /\ UNCHANGED <<memoryCache, redisStore, lastSet, alive>>
    /\ UNCHANGED <<cacheEnabled, redisUrlSet, redis, redisUp, closed, lastOp, now>>
    /\ UNCHANGED <<rateLimitEnabled, rlMax, rlWindowMs, memHits, rlRedis, lastCheck,
                   checks, sent>>
    /\ UNCHANGED <<flightVars, errorVars, shutdownVars, keyVars>>

\* const cached = await cacheService.get(cacheKey); if (cached) { res.json(cached); return; }
Lookup ==
    /\ At("lookup")
    /\ LET o == Get(work.key)
           w == [work EXCEPT !.trail = Append(@, IF o.value = JNull THEN "get:miss"
                                                  ELSE "get:hit")]
       IN  /\ memoryCache' = o.mem
           /\ redisStore' = o.store
           /\ IF Truthy(o.value)
              THEN IF work.replies = <<>>
                   THEN Finish([w EXCEPT !.data = o.value], 200)
                   ELSE /\ work' = [w EXCEPT !.pc = "caught", !.err = HeadersSent]
                        /\ UNCHANGED req
              ELSE /\ work' = [w EXCEPT !.pc = "upstream"]
                   /\ UNCHANGED req
    /\ UNCHANGED <<lastSet, alive>>
    /\ UNCHANGED <<cacheEnabled, redisUrlSet, redis, redisUp, closed, lastOp, now>>
    /\ UNCHANGED <<rateLimitEnabled, rlMax, rlWindowMs, memHits, rlRedis, lastCheck,
                   checks, sent>>
    /\ UNCHANGED <<flightVars, errorVars, shutdownVars, keyVars>>

\* const data = await client.get(...): the upstream answers with data, or the
\* call fails; the Google handlers answer 400 for a status they do not accept.
Upstream ==
    /\ At("upstream")
    /\ \/ \E d \in UpstreamData, s \in ApiStatusesOf(req.group) :
             LET w == [work EXCEPT !.data = d, !.api = s,
                                   !.trail = Append(@, "upstream:ok")]
             IN  IF Accepted(req.group, s)
                 THEN /\ work' = [w EXCEPT !.pc = "store"]
                      /\ UNCHANGED req
                 ELSE Finish(w, 400)
       \/ \E e \in UpstreamErrors :
             /\ work' = [work EXCEPT !.pc = "caught", !.err = e,
                                     !.trail = Append(@, "upstream:failed")]
             /\ UNCHANGED req
    /\ UNCHANGED <<memoryCache, redisStore, lastSet, alive>>
    /\ UNCHANGED <<cacheEnabled, redisUrlSet, redis, redisUp, closed, lastOp, now>>
    /\ UNCHANGED <<rateLimitEnabled, rlMax, rlWindowMs, memHits, rlRedis, lastCheck,
                   checks, sent>>
    /\ UNCHANGED <<flightVars, errorVars, shutdownVars, keyVars>>

\* await cacheService.set(cacheKey, data, TTL)
Store ==
    /\ At("store")
    /\ LET o == Set(work.key, work.data, HandlerTtl)
       IN  /\ memoryCache' = o.mem
           /\ redisStore' = o.store
           /\ lastSet' = IF o.touched /\ o.error = "none"
                         THEN With(lastSet, work.key,
                                   [value |-> work.data, given |-> HandlerTtl,
                                    at |-> now,
                                    deadline |-> now + 1000 * HandlerTtl])
                         ELSE lastSet
    /\ work' = [work EXCEPT !.pc = "respond", !.trail = Append(@, "set")]
    /\ UNCHANGED <<req, alive>>
    /\ UNCHANGED <<cacheEnabled, redisUrlSet, redis, redisUp, closed, lastOp, now>>
    /\ UNCHANGED <<rateLimitEnabled, rlMax, rlWindowMs, memHits, rlRedis, lastCheck,
                   checks, sent>>
    /\ UNCHANGED <<flightVars, errorVars, shutdownVars, keyVars>>

\* res.json(data): it throws when a reply was sent before.
Respond ==
    /\ At("respond")
    /\ IF work.replies = <<>>
       THEN Finish(work, 200)
       ELSE /\ work' = [work EXCEPT !.pc = "caught", !.err = HeadersSent]
            /\ UNCHANGED req
    /\ UNCHANGED <<memoryCache, redisStore, lastSet, alive>>
    /\ UNCHANGED <<cacheEnabled, redisUrlSet, redis, redisUp, closed, lastOp, now>>
    /\ UNCHANGED <<rateLimitEnabled, rlMax, rlWindowMs, memHits, rlRedis, lastCheck,
                   checks, sent>>
    /\ UNCHANGED <<flightVars, errorVars, shutdownVars, keyVars>>

\* The catch block: the bus and LTA handlers log and throw the error on, so the
\* handler's promise is rejected; the routes handler answers 500.
Caught ==
    /\ At("caught")
    /\ IF Rethrows(req.group) \/ work.replies # <<>>
       THEN /\ work' = [work EXCEPT !.pc = "rejected"]
            /\ UNCHANGED req
       ELSE Finish(work, 500)
    /\ UNCHANGED <<memoryCache, redisStore, lastSet, alive>>
    /\ UNCHANGED <<cacheEnabled, redisUrlSet, redis, redisUp, closed, lastOp, now>>
    /\ UNCHANGED <<rateLimitEnabled, rlMax, rlWindowMs, memHits, rlRedis, lastCheck,
                   checks, sent>>
    /\ UNCHANGED <<flightVars, errorVars, shutdownVars, keyVars>>

\* Express 4.x does not look at the promise an async handler returns: the
\* rejection is unhandled, and process.on('unhandledRejection') logs it and
\* calls process.exit(1).
UnhandledRejection ==
    /\ At("rejected")
    /\ alive' = FALSE
    /\ work' = [work EXCEPT !.pc = "exited"]
    /\ UNCHANGED <<req, memoryCache, redisStore, lastSet>>
    /\ UNCHANGED <<cacheEnabled, redisUrlSet, redis, redisUp, closed, lastOp, now>>
    /\ UNCHANGED <<rateLimitEnabled, rlMax, rlWindowMs, memHits, rlRedis, lastCheck,
                   checks, sent>>
    /\ UNCHANGED <<flightVars, errorVars, shutdownVars, keyVars>>

\* app.get('/health'), the mounted routers with their handlers, and the 404
\* handler.
Dispatch ==
    /\ alive /\ req.stage = "route"
    /\ req' = IF req.group = "health"
              THEN [req EXCEPT !.stage = "done", !.status = 200]
              ELSE IF req.group \notin Mounted
              THEN [req EXCEPT !.stage = "done", !.status = 404]
              ELSE IF GateOf(req.group) # {}
              THEN [req EXCEPT !.stage = "strict"]
              ELSE [req EXCEPT !.stage = "handler"]
    /\ UNCHANGED <<rateLimitEnabled, rlMax, rlWindowMs, memHits, rlRedis, lastCheck,
                   checks, sent, now>>
    /\ UNCHANGED <<cacheVars, flightVars, handlerVars, errorVars, shutdownVars, keyVars>>

\* The requests the handlers are called with.
MaxCalls == 3

\* A router's handler is called with a request: router.get(path, handler).
Call(g) ==
    /\ alive /\ req.stage \in {"idle", "done"}
    /\ sent < MaxCalls
    /\ sent' = sent + 1
    /\ req' = [stage |-> "handler", client |-> "a", group |-> g, status |-> 0,
               passed |-> {}]
    /\ UNCHANGED <<rateLimitEnabled, rlMax, rlWindowMs, memHits, rlRedis, lastCheck,
                   checks, now>>
    /\ UNCHANGED <<cacheVars, flightVars, handlerVars, errorVars, shutdownVars, keyVars>>

\* Time passes between requests; the shared store drops the keys whose TTL
\* has run out.
TickProxy ==
    /\ alive /\ req.stage \in {"idle", "done"}
    /\ now + CacheStepMs <= MaxCacheTime
    /\ now' = now + CacheStepMs
    /\ redisStore' = Without(redisStore,
                             {k \in DOMAIN redisStore :
                                 RedisExpired(redisStore[k], now + CacheStepMs)})
    /\ UNCHANGED <<cacheEnabled, redisUrlSet, redis, redisUp, closed, memoryCache,
                   lastOp, lastSet>>
    /\ UNCHANGED <<limiterVars, flightVars, handlerVars, errorVars, shutdownVars, keyVars>>

-----------------------------------------------------------------------------
(* Two requests of GET /api/bus/shuttleservice for one stop, served        *)
(* concurrently: each await of the handler (src/unnamed/part_003 98-123)   *)
(* is a point where the other handler may run.                             *)

\* The times each of the two requests is sent.
MaxRounds == 2

\* The answers of the upstream: two truthy payloads.
RaceData == {JStr(<<"a">>), JStr(<<"b">>)}

\* `bus:shuttleservice:${busStopName}`, the same stop in both requests.
RaceKey == KeyOf("bus", TRUE)

IdleRun == [pc |-> "idle", data |-> JNull, got |-> JNull, from |-> "none", round |-> 0]

NoRuns == [run |-> <<IdleRun, IdleRun>>, fetched |-> {}]

\* Handler i is called with a request.
RunBegin(i) ==
    /\ runs.run[i].pc \in {"idle", "finished"}
    /\ runs.run[i].round < MaxRounds
    /\ runs' = [runs EXCEPT !.run[i] = [IdleRun EXCEPT !.pc = "lookup",
                                                        !.round = runs.run[i].round + 1]]
    /\ UNCHANGED <<cacheVars, limiterVars, flightVars, handlerVars, errorVars,
                   shutdown, boot, bodies, keyed, now>>

\* const cached = await cacheService.get(cacheKey); if (cached) { res.json(cached); return; }
RunLookup(i) ==
    /\ runs.run[i].pc = "lookup"
    /\ LET o == Get(RaceKey)
       IN  /\ memoryCache' = o.mem
           /\ redisStore' = o.store
           /\ runs' = IF Truthy(o.value)
                      THEN [runs EXCEPT !.run[i].pc = "finished",
                                        !.run[i].got = o.value,
                                        !.run[i].from = "cache"]
                      ELSE [runs EXCEPT !.run[i].pc = "upstream"]
    /\ UNCHANGED <<cacheEnabled, redisUrlSet, redis, redisUp, closed, now, lastOp,
                   lastSet>>
    /\ UNCHANGED <<limiterVars, flightVars, handlerVars, errorVars, shutdown, boot,
                   bodies, keyed>>

\* const data = await nusNextBusClient.get('/ShuttleService', ...): an answer,
\* or the call fails and the catch block ends the handler.
RunUpstream(i) ==
    /\ runs.run[i].pc = "upstream"
    /\ \/ \E d \in RaceData :
             runs' = [runs EXCEPT !.run[i].pc = "store", !.run[i].data = d,
                                  !.fetched = @ \cup {d}]
       \/ runs' = [runs EXCEPT !.run[i].pc = "finished", !.run[i].from = "error"]
    /\ UNCHANGED <<cacheVars, limiterVars, flightVars, handlerVars, errorVars,
                   shutdown, boot, bodies, keyed, now>>

\* await cacheService.set(cacheKey, data, TTL.LIVE)
RunStore(i) ==
    /\ runs.run[i].pc = "store"
    /\ LET o == Set(RaceKey, runs.run[i].data, HandlerTtl)
       IN  /\ memoryCache' = o.mem
           /\ redisStore' = o.store
           /\ lastSet' = IF o.touched /\ o.error = "none"
                         THEN With(lastSet, RaceKey,
                                   [value |-> runs.run[i].data, given |-> HandlerTtl,
                                    at |-> now,
                                    deadline |-> now + 1000 * HandlerTtl])
                         ELSE lastSet
    /\ runs' = [runs EXCEPT !.run[i].pc = "respond"]
    /\ UNCHANGED <<cacheEnabled, redisUrlSet, redis, redisUp, closed, now, lastOp>>
    /\ UNCHANGED <<limiterVars, flightVars, handlerVars, errorVars, shutdown, boot,
                   bodies, keyed>>

\* res.json(data)
RunRespond(i) ==
    /\ runs.run[i].pc = "respond"
    /\ runs' = [runs EXCEPT !.run[i].pc = "finished",
                            !.run[i].got = runs.run[i].data,
                            !.run[i].from = "upstream"]
    /\ UNCHANGED <<cacheVars, limiterVars, flightVars, handlerVars, errorVars,
                   shutdown, boot, bodies, keyed, now>>

-----------------------------------------------------------------------------
(* The startup (src/src/index.ts 15-22, 122-133) and validateConfig        *)
(* (src/src/config/index.ts 45-64).                                        *)

\* The four credentials validateConfig asks for.
Credentials == {"nusUsername", "nusPassword", "ltaKey", "googleKey"}

\* process.env.X || '': a credential is set, or it is the empty string.
CredentialValues == {"", "x"}

\* Variant: the Google key is not asked for.
ErrorsButGoogle(creds) == {c \in Credentials \ {"googleKey"} : creds[c] = ""}

\* validateConfig: one error for every credential that is empty.
Errors(creds) == {c \in Credentials : creds[c] = ""}

\* The server of a process that was started with every credential.
Listening ==
    [creds |-> [c \in Credentials |-> "x"], phase |-> "listening", code |-> -1]

\* try { validateConfig() } catch { process.exit(1) }
Validate ==
    /\ alive /\ boot.phase = "start"
    /\ IF Errors(boot.creds) # {}
       THEN /\ boot' = [boot EXCEPT !.phase = "exited", !.code = 1]
            /\ alive' = FALSE
       ELSE /\ boot' = [boot EXCEPT !.phase = "validated"]
            /\ UNCHANGED alive
    /\ UNCHANGED <<cacheVars, limiterVars, flightVars, errorVars, keyVars, shutdown,
                   work, now>>

\* const server = app.listen(config.server.port, ...)
Listen ==
    /\ alive /\ boot.phase = "validated"
    /\ boot' = [boot EXCEPT !.phase = "listening"]
    /\ UNCHANGED <<cacheVars, limiterVars, flightVars, handlerVars, errorVars, keyVars,
                   shutdown, now>>

-----------------------------------------------------------------------------
(* gracefulShutdown (src/src/index.ts).                                    *)

\* setTimeout(..., 30000): the forced shutdown.
ForceExitMs == 30000

\* The Date.now() step of the shutdown's clock, and where the clock stops.
ShutdownStepMs == 15000
MaxShutdownTime == 45000

\* No signal has been received.
NoShutdown == [phase |-> "running", at |-> 0, code |-> -1, exitAt |-> 0]

\* The shutdown is under way: the signal was received, the process has not
\* exited.
ShuttingDown == shutdown.phase \in {"draining", "closing", "closed", "waiting"}

\* Variant: no timer is armed.
ForceDueNever(t) == FALSE

\* The timer of the forced shutdown is due at time t.
ForceDue(t) == ShuttingDown /\ t >= shutdown.at + ForceExitMs

\* Variant: every exit reports success.
ExitedClean(code, t) == [shutdown EXCEPT !.phase = "exited", !.code = 0, !.exitAt = t]

\* process.exit(code) at time t.
Exited(code, t) == [shutdown EXCEPT !.phase = "exited", !.code = code, !.exitAt = t]

\* SIGTERM or SIGINT: server.close(callback) and the timer.
Signal ==
    /\ alive /\ shutdown.phase = "running"
    /\ shutdown' = [shutdown EXCEPT !.phase = "draining", !.at = now]
    /\ UNCHANGED <<cacheVars, limiterVars, flightVars, handlerVars, errorVars, keyVars, boot,
                   now>>

\* The server has closed its connections: the callback of server.close runs.
ServerClosed ==
    /\ alive /\ shutdown.phase = "draining"
    /\ shutdown' = [shutdown EXCEPT !.phase = "closing"]
    /\ UNCHANGED <<cacheVars, limiterVars, flightVars, handlerVars, errorVars, keyVars, boot,
                   now>>

\* await cacheService.close(): it returns, or quit() is rejected and the catch
\* block calls process.exit(1), or quit() on a store that does not answer
\* stays pending.
ShutdownClose ==
    /\ alive /\ shutdown.phase = "closing"
    /\ \/ LET o == Close
          IN  /\ memoryCache' = o.mem
              /\ closed' = (closed \/ (redis /\ ~o.threw))
              /\ lastOp' = OpRecord("close", <<>>, JNull, NoTtl, o)
              /\ lastSet' = IF redis THEN lastSet ELSE EmptyMap
              /\ IF o.threw
                 THEN /\ shutdown' = Exited(1, now)
                      /\ alive' = FALSE
                 ELSE /\ shutdown' = [shutdown EXCEPT !.phase = "closed"]
                      /\ UNCHANGED alive
       \/ /\ redis /\ ~RedisOk
          /\ shutdown' = [shutdown EXCEPT !.phase = "waiting"]
          /\ UNCHANGED <<memoryCache, closed, lastOp, lastSet, alive>>
    /\ UNCHANGED <<cacheEnabled, redisUrlSet, redis, redisUp, redisStore, work, now>>
    /\ UNCHANGED <<limiterVars, flightVars, errorVars, keyVars, boot>>

\* process.exit(0) after close() has returned.
ExitCompleted ==
    /\ alive /\ shutdown.phase = "closed"
    /\ shutdown' = Exited(0, now)
    /\ alive' = FALSE
    /\ UNCHANGED <<cacheVars, limiterVars, flightVars, errorVars, keyVars, boot, work, now>>

\* Time passes; when the timer is due its callback calls process.exit(1).
TickShutdown ==
    /\ alive
    /\ now + ShutdownStepMs <= MaxShutdownTime
    /\ now' = now + ShutdownStepMs
    /\ redisStore' = Without(redisStore,
                             {k \in DOMAIN redisStore :
                                 RedisExpired(redisStore[k], now + ShutdownStepMs)})
    /\ IF ForceDue(now + ShutdownStepMs)
       THEN /\ shutdown' = Exited(1, shutdown.at + ForceExitMs)
            /\ alive' = FALSE
       ELSE UNCHANGED <<shutdown, alive>>
    /\ UNCHANGED <<cacheEnabled, redisUrlSet, redis, redisUp, closed, memoryCache,
                   lastOp, lastSet, work>>
    /\ UNCHANGED <<limiterVars, flightVars, errorVars, keyVars, boot>>

-----------------------------------------------------------------------------
(* The cache key of POST /api/routes/compute.                              *)

\* No request body at hand.
NoBodies == <<>>

NoKeys == <<>>

\* The largest coordinate of the model (coordinates are 1..MaxCoord).
MaxCoord == 2

\* A latLng object as the client presents it: the order of its two fields
\* and their spelling (latitude/longitude, or lat/lng).
LatLng(order, spelling, lat, lng) ==
    [order |-> order, spelling |-> spelling, lat |-> lat, lng |-> lng]

\* The request bodies of the model.  via is the one intermediate waypoint: the
\* body field that carries it (intermediateWaypoints, intermediates or none)
\* and the waypoint.
Orders == {"latlng", "lnglat"}

ViaFields == {"intermediateWaypoints", "intermediates"}

Bodies ==
    {[origin |-> LatLng(o, "latitude", lat, 1),
      destination |-> LatLng("latlng", "latitude", 1, 1),
      travelMode |-> m,
      viaField |-> f,
      via |-> LatLng("latlng", sp, 1, 2)] :
        o \in Orders, lat \in 1..MaxCoord, m \in {"absent", "DRIVE", "WALK"},
        f \in ViaFields \cup {"none"}, sp \in {"latitude", "lat"}}

\* JSON.stringify of a latLng object: the fields in the order they were
\* inserted, that is, the order of the request's JSON text.
StringifyLatLng(l) ==
    LET la == IF l.spelling = "lat" THEN "\"lat\"" ELSE "\"latitude\""
        lo == IF l.spelling = "lat" THEN "\"lng\"" ELSE "\"longitude\""
    IN  IF l.order = "latlng"
        THEN <<"{", la, ":", Digits[l.lat + 1], ",", lo, ":", Digits[l.lng + 1], "}">>
        ELSE <<"{", lo, ":", Digits[l.lng + 1], ",", la, ":", Digits[l.lat + 1], "}">>

\* JSON.stringify of { location: { latLng: ... } }
StringifyWaypoint(l) ==
    <<"{", "\"location\"", ":", "{", "\"latLng\"", ":">> \o StringifyLatLng(l)
        \o <<"}", "}">>

\* requestBody.travelMode || 'DRIVE'
TravelModeOf(b) == IF b.travelMode = "absent" THEN "DRIVE" ELSE b.travelMode

\* normalizeLatLng: lat ?? latitude and lng ?? longitude, written out as
\* { location: { latLng: { latitude, longitude } } }
NormalizeLatLng(l) == LatLng("latlng", "latitude", l.lat, l.lng)

\* google-routes.ts 35-40: the key is JSON.stringify of origin, destination,
\* intermediateWaypoints (left out when undefined) and travelMode, as the
\* body presents them.
CacheKeyRoutes(b) ==
    <<"routes:", "{", "\"origin\"", ":">> \o StringifyWaypoint(b.origin)
        \o <<",", "\"destination\"", ":">> \o StringifyWaypoint(b.destination)
        \o (IF b.viaField = "intermediateWaypoints"
            THEN <<",", "\"intermediateWaypoints\"", ":", "[">>
                     \o StringifyWaypoint(b.via) \o <<"]">>
            ELSE <<>>)
        \o <<",", "\"travelMode\"", ":", TravelModeOf(b), "}">>

\* part_003 353-391: the same with the intermediate waypoints taken from
\* either field and normalized.
CacheKeyNormalized(b) ==
    <<"routes:", "{", "\"origin\"", ":">> \o StringifyWaypoint(b.origin)
        \o <<",", "\"destination\"", ":">> \o StringifyWaypoint(b.destination)
        \o <<",", "\"intermediates\"", ":", "[">>
        \o (IF b.viaField = "none" THEN <<>>
            ELSE StringifyWaypoint(NormalizeLatLng(b.via)))
        \o <<"]", ",", "\"travelMode\"", ":", TravelModeOf(b), "}">>

NoKey == [routes |-> <<>>, normalized |-> <<>>]

\* The handler computes the cache key of body i.
ComputeKey(i) ==
    /\ i \in DOMAIN bodies
    /\ keyed[i] = NoKey
    /\ keyed' = [keyed EXCEPT ![i] = [routes |-> CacheKeyRoutes(bodies[i]),
                                      normalized |-> CacheKeyNormalized(bodies[i])]]
    /\ UNCHANGED <<bodies, shutdown, boot, runs, now>>
    /\ UNCHANGED <<cacheVars, limiterVars, flightVars, handlerVars, errorVars>>

-----------------------------------------------------------------------------
(* The cache key of GET /api/google/directions.                            *)

\* The values of a query parameter: strings, some with the key's separator.
Texts == {<<"a">>, <<"b">>, <<"a", ":", "b">>}

\* The requests of the model: origin and destination are required; mode and
\* avoid are optional ("" when the query has none).
Queries ==
    {[origin |-> o, destination |-> d, mode |-> m, avoid |-> v] :
        o \in Texts, d \in {<<"b">>, <<"c">>, <<"b", ":", "c">>},
        m \in {<<>>, <<"walking">>}, v \in {<<>>, <<"tolls">>}}

\* google-directions.ts 61:
\* `directions:${origin}:${destination}:${mode || 'driving'}:${departure_time || ''}:${arrival_time || ''}`
CacheKeyDirections(q) ==
    <<"directions", ":">> \o q.origin \o <<":">> \o q.destination \o <<":">>
        \o (IF q.mode = <<>> THEN <<"driving">> ELSE q.mode) \o <<":", ":">>

\* google-directions.ts 72-83: what the handler hands to getDirections.
ForwardedDirections(q) ==
    [origin |-> q.origin, destination |-> q.destination, mode |-> q.mode,
     avoid |-> q.avoid]

NoDirectionsKey == [directions |-> <<>>]

\* The handler computes the cache key of request i.
ComputeDirectionsKey(i) ==
    /\ i \in DOMAIN bodies
    /\ keyed[i] = NoDirectionsKey
    /\ keyed' = [keyed EXCEPT ![i] = [directions |-> CacheKeyDirections(bodies[i])]]
    /\ UNCHANGED <<bodies, shutdown, boot, runs, now>>
    /\ UNCHANGED <<cacheVars, limiterVars, flightVars, handlerVars, errorVars>>

-----------------------------------------------------------------------------
(* The specifications.                                                     *)

\* No check in flight, no handler running, no error at errorHandler.
RestIdle ==
    /\ flights = NoFlights
    /\ instHits = [i \in Instances |-> [L \in Limiters |-> EmptyMap]]
    /\ work = IdleWork
    /\ alive = TRUE
    /\ fault = NoFault
    /\ replies = <<>>
    /\ shutdown = NoShutdown
    /\ boot = Listening
    /\ runs = NoRuns
    /\ bodies = NoBodies
    /\ keyed = NoKeys


LimiterIdle ==
    /\ rateLimitEnabled = TRUE
    /\ rlMax = GlobalMaxLow
    /\ rlWindowMs = DefaultWindowMs
    /\ memHits = [L \in Limiters |-> EmptyMap]
    /\ rlRedis = EmptyMap
    /\ req = Idle
    /\ lastCheck = NoCheck
    /\ checks = [L \in Limiters |-> EmptyMap]
    /\ sent = 0

\* A shared store may hold a value that is not JSON under a cache key.
Corrupt == [value |-> <<"{">>, expireAt |-> MaxCacheTime]

InitCache ==
    /\ cacheEnabled \in BOOLEAN
    /\ redisUrlSet \in BOOLEAN
    /\ \E ctorThrew \in BOOLEAN : redis = Constructed(redisUrlSet, ctorThrew)
    /\ redisUp \in (IF redisUrlSet THEN BOOLEAN ELSE {FALSE})
    /\ closed = FALSE
    /\ memoryCache = EmptyMap
    /\ redisStore \in (IF redisUrlSet
                       THEN {EmptyMap, [k \in {<<"b", ":", "p">>} |-> Corrupt]}
                       ELSE {EmptyMap})
    /\ now = 0
    /\ lastOp = NoOp
    /\ lastSet = EmptyMap
    /\ LimiterIdle
    /\ RestIdle

NextCache ==
    \/ \E k \in Keys : CacheGet(k)
    \/ \E call \in SetCalls : CacheSet(call[1], call[2], call[3])
    \/ \E k \in Keys : CacheDel(k)
    \/ \E p \in Patterns : CacheDelPattern(p)
    \/ CacheClose
    \/ TickCache
    \/ RedisFlip

SpecCache == InitCache /\ [][NextCache]_vars

InitLimiter ==
    /\ cacheEnabled = TRUE
    /\ redisUrlSet \in BOOLEAN
    /\ redis = Constructed(redisUrlSet, FALSE)
    /\ redisUp = redisUrlSet
    /\ closed = FALSE
    /\ memoryCache = EmptyMap
    /\ redisStore = EmptyMap
    /\ now = 0
    /\ lastOp = NoOp
    /\ lastSet = EmptyMap
    /\ rateLimitEnabled \in BOOLEAN
    /\ rlMax \in {GlobalMaxLow, GlobalMaxHigh}
    /\ rlWindowMs \in WindowChoices
    /\ memHits = [L \in Limiters |-> EmptyMap]
    /\ rlRedis = EmptyMap
    /\ req = Idle
    /\ lastCheck = NoCheck
    /\ checks = [L \in Limiters |-> EmptyMap]
    /\ sent = 0
    /\ RestIdle

NextLimiter ==
    \/ \E c \in Clients, g \in Groups : Receive(c, g)
    \/ GlobalGate
    \/ Route
    \/ StrictGate
    \/ Handle
    \/ TickLimiter

SpecLimiter == InitLimiter /\ [][NextLimiter]_vars

\* Concurrent checks of one client on two instances.
InitConcurrent ==
    /\ cacheEnabled = TRUE
    /\ redisUrlSet \in BOOLEAN
    /\ redis = Constructed(redisUrlSet, FALSE)
    /\ redisUp = redisUrlSet
    /\ closed = FALSE
    /\ memoryCache = EmptyMap
    /\ redisStore = EmptyMap
    /\ now = 0
    /\ lastOp = NoOp
    /\ lastSet = EmptyMap
    /\ LimiterIdle
    /\ RestIdle

NextConcurrent ==
    \/ \E L \in FlightLimiters : StartCheck(InstanceOf(Len(flights) + 1), L, "a")
    \/ \E n \in 1..MaxFlights : StoreIncrement(n)
    \/ \E n \in 1..MaxFlights : Decide(n)
    \/ TickFlights

SpecConcurrent == InitConcurrent /\ [][NextConcurrent]_vars

\* The gateway serving requests of one client through the gates and handlers.
InitProxy ==
    /\ cacheEnabled \in BOOLEAN
    /\ redisUrlSet \in BOOLEAN
    /\ redis = Constructed(redisUrlSet, FALSE)
    /\ redisUp = redisUrlSet
    /\ closed = FALSE
    /\ memoryCache = EmptyMap
    /\ redisStore = EmptyMap
    /\ now = 0
    /\ lastOp = NoOp
    /\ lastSet = EmptyMap
    /\ rateLimitEnabled = TRUE
    /\ rlMax \in {GlobalMaxLow, GlobalMaxHigh}
    /\ rlWindowMs = DefaultWindowMs
    /\ memHits = [L \in Limiters |-> EmptyMap]
    /\ rlRedis = EmptyMap
    /\ req = Idle
    /\ lastCheck = NoCheck
    /\ checks = [L \in Limiters |-> EmptyMap]
    /\ sent = 0
    /\ RestIdle

NextProxy ==
    \/ \E g \in Groups : alive /\ Receive("a", g)
    \/ alive /\ GlobalGate
    \/ Dispatch
    \/ alive /\ StrictGate
    \/ \E valid \in BOOLEAN : Enter(valid)
    \/ Lookup
    \/ Upstream
    \/ Store
    \/ Respond
    \/ Caught
    \/ UnhandledRejection
    \/ TickProxy

SpecProxy == InitProxy /\ [][NextProxy]_vars

\* The handlers of the five routers, each called with requests of its own.
Routers == {"bus", "lta", "routes"} \cup GoogleRouters

InitRouters ==
    /\ cacheEnabled = TRUE
    /\ redisUrlSet \in BOOLEAN
    /\ redis = Constructed(redisUrlSet, FALSE)
    /\ redisUp = redisUrlSet
    /\ closed = FALSE
    /\ memoryCache = EmptyMap
    /\ redisStore = EmptyMap
    /\ now = 0
    /\ lastOp = NoOp
    /\ lastSet = EmptyMap
    /\ LimiterIdle
    /\ RestIdle

NextRouters ==
    \/ \E g \in Routers : Call(g)
    \/ \E valid \in BOOLEAN : Enter(valid)
    \/ Lookup
    \/ Upstream
    \/ Store
    \/ Respond
    \/ Caught
    \/ UnhandledRejection
    \/ TickProxy

SpecRouters == InitRouters /\ [][NextRouters]_vars

\* The process from its start: the configuration is validated, the server
\* listens, requests are served.
InitStartup ==
    /\ cacheEnabled = TRUE
    /\ redisUrlSet = FALSE
    /\ redis = Constructed(redisUrlSet, FALSE)
    /\ redisUp = FALSE
    /\ closed = FALSE
    /\ memoryCache = EmptyMap
    /\ redisStore = EmptyMap
    /\ now = 0
    /\ lastOp = NoOp
    /\ lastSet = EmptyMap
    /\ LimiterIdle
    /\ flights = NoFlights
    /\ instHits = [i \in Instances |-> [L \in Limiters |-> EmptyMap]]
    /\ work = IdleWork
    /\ alive = TRUE
    /\ fault = NoFault
    /\ replies = <<>>
    /\ shutdown = NoShutdown
    /\ bodies = NoBodies
    /\ keyed = NoKeys
    /\ boot \in [creds : [Credentials -> CredentialValues], phase : {"start"},
                  code : {-1}]
    /\ runs = NoRuns

NextStartup ==
    \/ Validate
    \/ Listen
    \/ \E g \in Groups : alive /\ boot.phase = "listening" /\ Receive("a", g)
    \/ alive /\ GlobalGate
    \/ alive /\ Route
    \/ alive /\ StrictGate
    \/ alive /\ Handle
    \/ alive /\ TickLimiter

SpecStartup == InitStartup /\ [][NextStartup]_vars

\* Two handlers of one key running concurrently while time passes.
InitRace ==
    /\ cacheEnabled = TRUE
    /\ redisUrlSet \in BOOLEAN
    /\ redis = Constructed(redisUrlSet, FALSE)
    /\ redisUp = redisUrlSet
    /\ closed = FALSE
    /\ memoryCache = EmptyMap
    /\ redisStore = EmptyMap
    /\ now = 0
    /\ lastOp = NoOp
    /\ lastSet = EmptyMap
    /\ LimiterIdle
    /\ RestIdle

NextRace ==
    \/ \E i \in {1, 2} : RunBegin(i)
    \/ \E i \in {1, 2} : RunLookup(i)
    \/ \E i \in {1, 2} : RunUpstream(i)
    \/ \E i \in {1, 2} : RunStore(i)
    \/ \E i \in {1, 2} : RunRespond(i)
    \/ TickProxy
    \/ RedisFlip

SpecRace == InitRace /\ [][NextRace]_vars

\* errorHandler applied to one error after another.
InitErrorHandler ==
    /\ cacheEnabled = TRUE
    /\ redisUrlSet = FALSE
    /\ redis = Constructed(redisUrlSet, FALSE)
    /\ redisUp = FALSE
    /\ closed = FALSE
    /\ memoryCache = EmptyMap
    /\ redisStore = EmptyMap
    /\ now = 0
    /\ lastOp = NoOp
    /\ lastSet = EmptyMap
    /\ LimiterIdle
    /\ flights = NoFlights
    /\ instHits = [i \in Instances |-> [L \in Limiters |-> EmptyMap]]
    /\ work = IdleWork
    /\ alive = TRUE
    /\ fault \in Faults
    /\ replies = <<>>
    /\ shutdown = NoShutdown
    /\ boot = Listening
    /\ runs = NoRuns
    /\ bodies = NoBodies
    /\ keyed = NoKeys

NextErrorHandler ==
    \/ ErrorHandlerCall
    \/ \E e \in Faults : NextFault(e)

SpecErrorHandler == InitErrorHandler /\ [][NextErrorHandler]_vars

\* The limiters of one client while the shared store goes down and comes back.
OutageGroups == {"bus", "routes"}

InitOutage ==
    /\ cacheEnabled = TRUE
    /\ redisUrlSet \in BOOLEAN
    /\ redis = Constructed(redisUrlSet, FALSE)
    /\ redisUp = redisUrlSet
    /\ closed = FALSE
    /\ memoryCache = EmptyMap
    /\ redisStore = EmptyMap
    /\ now = 0
    /\ lastOp = NoOp
    /\ lastSet = EmptyMap
    /\ rateLimitEnabled = TRUE
    /\ rlMax \in {GlobalMaxLow, GlobalMaxHigh}
    /\ rlWindowMs = DefaultWindowMs
    /\ memHits = [L \in Limiters |-> EmptyMap]
    /\ rlRedis = EmptyMap
    /\ req = Idle
    /\ lastCheck = NoCheck
    /\ checks = [L \in Limiters |-> EmptyMap]
    /\ sent = 0
    /\ RestIdle

NextOutage ==
    \/ \E g \in OutageGroups : Receive("a", g)
    \/ GlobalGate
    \/ Route
    \/ StrictGate
    \/ Handle
    \/ TickLimiter
    \/ RedisFlip

SpecOutage == InitOutage /\ [][NextOutage]_vars

\* The gateway's cache in use, then a shutdown signal.
InitShutdown ==
    /\ cacheEnabled = TRUE
    /\ redisUrlSet \in BOOLEAN
    /\ redis = Constructed(redisUrlSet, FALSE)
    /\ redisUp = redisUrlSet
    /\ closed = FALSE
    /\ memoryCache = EmptyMap
    /\ redisStore = EmptyMap
    /\ now = 0
    /\ lastOp = NoOp
    /\ lastSet = EmptyMap
    /\ LimiterIdle
    /\ RestIdle

NextShutdown ==
    \/ \E k \in Keys, v \in UpstreamData :
          shutdown.phase = "running" /\ CacheSet(k, v, NoTtl)
    \/ alive /\ ~closed /\ RedisFlip
    \/ Signal
    \/ ServerClosed
    \/ ShutdownClose
    \/ ExitCompleted
    \/ TickShutdown

SpecShutdown == InitShutdown /\ [][NextShutdown]_vars

\* The shutdown with time passing: the event loop runs the timers that are due.
SpecShutdownFair == SpecShutdown /\ WF_vars(TickShutdown)

\* The cache key computed for two request bodies.
InitKeys ==
    /\ cacheEnabled = TRUE
    /\ redisUrlSet = FALSE
    /\ redis = Constructed(redisUrlSet, FALSE)
    /\ redisUp = FALSE
    /\ closed = FALSE
    /\ memoryCache = EmptyMap
    /\ redisStore = EmptyMap
    /\ now = 0
    /\ lastOp = NoOp
    /\ lastSet = EmptyMap
    /\ LimiterIdle
    /\ flights = NoFlights
    /\ instHits = [i \in Instances |-> [L \in Limiters |-> EmptyMap]]
    /\ work = IdleWork
    /\ alive = TRUE
    /\ fault = NoFault
    /\ replies = <<>>
    /\ shutdown = NoShutdown
    /\ boot = Listening
    /\ runs = NoRuns
    /\ bodies \in Bodies \X Bodies
    /\ keyed = <<NoKey, NoKey>>

NextKeys == \E i \in {1, 2} : ComputeKey(i)

SpecKeys == InitKeys /\ [][NextKeys]_vars


\* The cache key computed for two directions requests.
InitDirectionsKeys ==
    /\ cacheEnabled = TRUE
    /\ redisUrlSet = FALSE
    /\ redis = Constructed(redisUrlSet, FALSE)
    /\ redisUp = FALSE
    /\ closed = FALSE
    /\ memoryCache = EmptyMap
    /\ redisStore = EmptyMap
    /\ now = 0
    /\ lastOp = NoOp
    /\ lastSet = EmptyMap
    /\ LimiterIdle
    /\ flights = NoFlights
    /\ instHits = [i \in Instances |-> [L \in Limiters |-> EmptyMap]]
    /\ work = IdleWork
    /\ alive = TRUE
    /\ fault = NoFault
    /\ replies = <<>>
    /\ shutdown = NoShutdown
    /\ boot = Listening
    /\ runs = NoRuns
    /\ bodies \in Queries \X Queries
    /\ keyed = <<NoDirectionsKey, NoDirectionsKey>>

NextDirectionsKeys == \E i \in {1, 2} : ComputeDirectionsKey(i)

SpecDirectionsKeys == InitDirectionsKeys /\ [][NextDirectionsKeys]_vars


-----------------------------------------------------------------------------
(* The Cache Service's claims, under SpecCache.                            *)

\* The calls of CacheService that have a catch block.
Guarded == {"get", "set", "del", "delPattern"}

\* C1, as stated: on an enabled cache, set(K, V, T) with a JSON value V and
\* T > 0, followed at once by get(K), gives a value equal to V.
C1_RoundTripAlways ==
    (cacheEnabled /\ lastOp.op = "set" /\ lastOp.arg \in JsonValues /\ lastOp.ttl > 0)
        => Get(lastOp.key).value = lastOp.arg

\* The round trip where the active backend carried the set out (the local map
\* always does, the shared store while it answers): a get(K) made after
\* set(K, V, T), with V a JSON value and T > 0, before T seconds have passed
\* and with no del, delPattern or close of K in between, gives a value equal
\* to V; right after the set, get(K) gives V.
RoundTripWhenCarriedOut ==
    /\ (cacheEnabled /\ lastOp.op = "set" /\ lastOp.arg \in JsonValues
            /\ lastOp.ttl > 0 /\ lastOp.error = "none")
          => Get(lastOp.key).value = lastOp.arg
    /\ (cacheEnabled /\ lastOp.op = "get" /\ lastOp.error # "store"
            /\ lastOp.key \in DOMAIN lastSet
            /\ lastSet[lastOp.key].value \in JsonValues
            /\ now < lastSet[lastOp.key].deadline)
          => lastOp.value = lastSet[lastOp.key].value

\* A string that needs escaping came back from the shared store.
RoundTripReached ==
    /\ cacheEnabled /\ redis
    /\ lastOp.op = "get" /\ lastOp.error = "none"
    /\ lastOp.key \in DOMAIN lastSet
    /\ now > 0 /\ now < lastSet[lastOp.key].deadline
    /\ lastOp.value = JStr(<<"a", Quote>>)

\* C2: get(K) never gives an entry whose expiry instant (the time of the set
\* that stored it plus its ttl) has passed, and on the local backend the get
\* that finds K expired removes it from the map.
C2_Expiry ==
    lastOp.op = "get" =>
        /\ lastOp.value # JNull =>
              /\ lastOp.key \in DOMAIN lastSet
              /\ ~(now > lastSet[lastOp.key].deadline)
        /\ (cacheEnabled /\ ~redis /\ lastOp.key \in DOMAIN memoryCache)
              => memoryCache[lastOp.key].expiresAt > now

\* C2's case: the local backend held a value for K, its expiry instant has
\* passed, and the get gave absent and removed K.
C2_Witness ==
    /\ cacheEnabled /\ ~redis
    /\ lastOp.op = "get" /\ lastOp.value = JNull
    /\ lastOp.key \in DOMAIN lastSet
    /\ lastSet[lastOp.key].value = JNum(0)
    /\ now > lastSet[lastOp.key].deadline
    /\ lastOp.key \notin DOMAIN memoryCache

\* C3, as stated: with a connection string configured and the shared store
\* unreachable, set(K, V, T) followed by get(K) still gives V.
C3_FallbackRoundTrip ==
    (cacheEnabled /\ redisUrlSet /\ ~redisUp /\ lastOp.op = "set"
        /\ lastOp.arg \in JsonValues /\ lastOp.ttl > 0)
        => Get(lastOp.key).value = lastOp.arg

\* C4: whatever fails (the store's command, JSON.stringify, JSON.parse), get,
\* set, del and delPattern raise nothing to the caller; get gives absent, and
\* a failed call leaves both backends as they were.
C4_Swallowed ==
    /\ [](lastOp.op \in Guarded =>
            /\ ~lastOp.raised
            /\ lastOp.error # "none" => lastOp.value = JNull)
    /\ [][(lastOp'.op \in Guarded /\ lastOp'.error # "none")
            => (memoryCache' = memoryCache /\ redisStore' = redisStore)]_vars

\* C4's case: a get found text that is not JSON, and gave absent.
C4_Witness ==
    /\ lastOp.op = "get" /\ lastOp.error = "json"
    /\ ~lastOp.raised /\ lastOp.value = JNull

\* C5: with config.cache.enabled false, get gives absent, set discards its
\* value, and neither uses or changes the shared store or the local map.
C5_DisabledNoOp ==
    /\ []((~cacheEnabled /\ lastOp.op \in {"get", "set"}) =>
            /\ lastOp.value = JNull
            /\ ~lastOp.touched
            /\ ~lastOp.raised
            /\ Get(lastOp.key).value = JNull)
    /\ [][(~cacheEnabled /\ lastOp'.op \in {"get", "set"})
            => (memoryCache' = memoryCache /\ redisStore' = redisStore)]_vars

\* C5's case: a set on a disabled cache whose shared store holds a key.
C5_Witness ==
    /\ ~cacheEnabled /\ redis /\ redisUp
    /\ lastOp.op = "set" /\ lastOp.arg = JNum(0)
    /\ redisStore # EmptyMap

DefaultDeadline(t) == t + 1000 * DefaultTTL

\* The keys whose last set that was carried out gave no ttlSeconds.
StoredByDefault == {k \in DOMAIN lastSet : lastSet[k].given = NoTtl}

\* C24, as stated: on an enabled cache, set(K, V) without ttlSeconds stores V
\* with the default TTL: get(K) right after the set gives V, a get(K) before
\* the default TTL has passed gives V, and a get(K) after it gives absent.
C24_DefaultTtl ==
    /\ (cacheEnabled /\ lastOp.op = "set" /\ lastOp.arg \in JsonValues
            /\ lastOp.ttl = DefaultTTL)
          => Get(lastOp.key).value = lastOp.arg
    /\ (cacheEnabled /\ lastOp.op = "get" /\ lastOp.key \in StoredByDefault
            /\ lastSet[lastOp.key].value \in JsonValues)
          => /\ now < DefaultDeadline(lastSet[lastOp.key].at)
                  => lastOp.value = lastSet[lastOp.key].value
             /\ now > DefaultDeadline(lastSet[lastOp.key].at)
                  => lastOp.value = JNull

\* Where the active backend carried the set out, the entry it holds runs out
\* at the default deadline, and a get that the backend answers gives V
\* before that instant and absent after it.
DefaultTtlWhenCarriedOut ==
    /\ \A k \in StoredByDefault :
          /\ (~redis /\ k \in DOMAIN memoryCache)
                => memoryCache[k].expiresAt = DefaultDeadline(lastSet[k].at)
          /\ (redis /\ k \in DOMAIN redisStore)
                => redisStore[k].expireAt = DefaultDeadline(lastSet[k].at)
    /\ (cacheEnabled /\ lastOp.op = "get" /\ lastOp.error # "store"
            /\ lastOp.key \in StoredByDefault
            /\ lastSet[lastOp.key].value \in JsonValues)
          => /\ now < DefaultDeadline(lastSet[lastOp.key].at)
                  => lastOp.value = lastSet[lastOp.key].value
             /\ now > DefaultDeadline(lastSet[lastOp.key].at)
                  => lastOp.value = JNull

\* A value stored without ttlSeconds came back after the largest explicit TTL
\* of the model had passed.
DefaultTtlReached ==
    /\ cacheEnabled /\ lastOp.op = "get" /\ lastOp.key \in StoredByDefault
    /\ now >= lastSet[lastOp.key].at + 1000 * MaxTtl
    /\ now < DefaultDeadline(lastSet[lastOp.key].at)
    /\ lastOp.value = JNum(0)

\* C25, as stated: on an enabled cache whose active backend answers, a set
\* with a JSON value and any ttlSeconds >= 0 is carried out without a backend
\* error, and on either backend the get that follows gives V when
\* ttlSeconds > 0 and absent when it is 0.
C25_AnyNonNegativeTtl ==
    (cacheEnabled /\ lastOp.op = "set" /\ lastOp.arg \in JsonValues
        /\ lastOp.ttl >= 0 /\ (redis => RedisOk))
      => /\ lastOp.error = "none"
         /\ Get(lastOp.key).value = (IF lastOp.ttl > 0 THEN lastOp.arg ELSE JNull)

\* The same for ttlSeconds > 0, and for 0 on the local map.
PositiveTtlAccepted ==
    (cacheEnabled /\ lastOp.op = "set" /\ lastOp.arg \in JsonValues
        /\ (redis => (RedisOk /\ lastOp.ttl > 0)))
      => /\ lastOp.error = "none"
         /\ Get(lastOp.key).value = (IF lastOp.ttl > 0 THEN lastOp.arg ELSE JNull)

\* A prefix pattern: text without '*', followed by one '*'.
IsPrefixPattern(p) ==
    /\ p # <<>> /\ p[Len(p)] = "*"
    /\ \A i \in 1..(Len(p) - 1) : p[i] # "*"

-----------------------------------------------------------------------------
(* The rate limiter's claims, under SpecLimiter.                           *)

StrictLimiters == {"routes", "directions"}

\* The step is a check by limiter L.
CheckBy(L) == lastCheck' # lastCheck /\ lastCheck'.limiter = L

\* C6, as stated: for each limiter, the first maxRequests checks of an
\* identity inside a window are admitted, every further check of the window is
\* rejected, and the first check after the window has elapsed is admitted with
\* a count of 1: the count a check reads is the number of checks that limiter
\* has made for the identity in the window.
C6_FixedWindow ==
    lastCheck.limiter # "none" =>
        LET n == checks[lastCheck.limiter][lastCheck.client].n
        IN  /\ lastCheck.count = n
            /\ lastCheck.admitted = (n <= MaxOf(lastCheck.limiter))

\* C7: a check whose count after the increment exceeds maxRequests, and no
\* other, is answered 429 with retryAfter = ceil(windowMs / 1000); every
\* check, rejected or not, leaves the counter one higher.
C7_Rejection ==
    /\ [](lastCheck.limiter # "none" =>
            LET L == lastCheck.limiter
            IN  /\ lastCheck.count = Count(L, lastCheck.client)
                /\ (lastCheck.count > MaxOf(L)) = (lastCheck.status = 429)
                /\ lastCheck.status = 429 =>
                      /\ req.stage = "done" /\ req.status = 429
                      /\ lastCheck.retryAfter * 1000 >= WindowOf(L)
                      /\ (lastCheck.retryAfter - 1) * 1000 < WindowOf(L))
    /\ [][\A L \in Limiters : \A c \in Clients :
            (CheckBy(L) /\ lastCheck'.client = c) => Count(L, c)' = Count(L, c) + 1]_vars

\* C7's case: the global gate, with a window that is no whole number of
\* seconds, rejects a check that follows a rejected one.
C7_Witness ==
    /\ lastCheck.limiter = "global" /\ rlWindowMs = OddWindowMs
    /\ lastCheck.status = 429 /\ lastCheck.retryAfter * 1000 > OddWindowMs
    /\ lastCheck.count > MaxOf("global") + 1

\* C8, as stated: a check by one route group's limiter never changes the count
\* that another route group's limiter holds for the same client, with the
\* in-process store and with the shared store.
C8_IndependentGroups ==
    [][\A L \in StrictLimiters : \A K \in StrictLimiters \ {L} : \A c \in Clients :
          CheckBy(L) => Count(K, c)' = Count(K, c)]_vars

\* C9: a check of identity A changes no bucket of another identity B, and the
\* decision of a check is a function of the counter of its own identity.
C9_IndependentIdentities ==
    /\ [](lastCheck.limiter # "none" =>
            lastCheck.admitted
                = (Count(lastCheck.limiter, lastCheck.client) <= MaxOf(lastCheck.limiter)))
    /\ [][\A L \in Limiters : \A b \in Clients :
            Bucket(L, b)' # Bucket(L, b)
                => (now' # now \/ (lastCheck' # lastCheck /\ lastCheck'.client = b))]_vars

\* C9's case: identity a has used up the global limiter, and a check of
\* identity b under the same limiter is admitted.
C9_Witness ==
    /\ lastCheck.limiter = "global" /\ lastCheck.client = "b" /\ lastCheck.admitted
    /\ Count("global", "a") > MaxOf("global")

\* C10, as stated: every answered request went through the global gate, a
\* strict gate checks only the requests of its own route group, a request of a
\* strict route group is served only when both gates admitted it, and a
\* request of another route group leaves a strict tier's counters as they were.
C10_GlobalAndStrict ==
    /\ []((rateLimitEnabled /\ req.stage = "done" /\ req.status # 429)
            => "global" \in req.passed)
    /\ []((rateLimitEnabled /\ req.stage = "done" /\ req.status = 200)
            => GateOf(req.group) \subseteq req.passed)
    /\ [](lastCheck.limiter \in StrictLimiters => req.group = lastCheck.limiter)
    /\ [][\A K \in StrictLimiters : \A c \in Clients :
            (lastCheck' # lastCheck /\ lastCheck'.limiter # "none" /\ req'.group # K)
                => Count(K, c)' = Count(K, c)]_vars


\* C12: with config.rateLimit.enabled false, every gate passes every request
\* on (no request is answered 429, however many were received), no limiter
\* makes a check, and neither the in-process stores nor the shared store
\* hold any per-client state.
C12_DisabledPassThrough ==
    /\ [](~rateLimitEnabled =>
            /\ memHits = [L \in Limiters |-> EmptyMap]
            /\ rlRedis = EmptyMap
            /\ checks = [L \in Limiters |-> EmptyMap]
            /\ lastCheck = NoCheck
            /\ req.status # 429)
    /\ [][(~rateLimitEnabled /\ req' # req) =>
            /\ req.stage = "global" => req'.stage = "route"
            /\ req.stage = "strict" => req'.stage = "handler"]_vars

\* C12's case: with the limiter disabled, the last of MaxRequests requests of
\* one client to a strict route group was served.
C12_Witness ==
    /\ ~rateLimitEnabled
    /\ sent = MaxRequests /\ sent > GlobalMaxHigh
    /\ req.client = "a" /\ req.group = "routes"
    /\ req.stage = "done" /\ req.status = 200

\* C20, as stated: a GET /health request is never checked by a limiter and is
\* always answered with the health status.
C20_HealthBypass ==
    req.group = "health" =>
        /\ lastCheck.limiter = "none"
        /\ req.stage = "done" => req.status = 200

-----------------------------------------------------------------------------
(* Concurrent checks, under SpecConcurrent.                                *)

\* The checks whose increment the store has carried out.
Counted == {n \in DOMAIN flights : flights[n].stage \in {"counted", "decided"}}

\* The counter a check counts on: a key of the shared store, or the
\* MemoryStore of the instance's limiter.
CounterOf(f) ==
    IF redis THEN <<0, "shared", RedisKey(f.limiter, f.client)>>
    ELSE <<f.inst, f.limiter, f.client>>

\* The counted checks of n's counter that fell into n's window.
SameWindow(n) ==
    {m \in Counted : /\ CounterOf(flights[m]) = CounterOf(flights[n])
                     /\ flights[m].until = flights[n].until}

\* C11: however the checks of one client interleave, on one instance or on
\* several that share the store, no increment is lost (the counts the checks
\* of a window read are 1, 2, ..., n), the window's expiry is set by exactly
\* one of them, a new window begins only after the one before has ended, and
\* each limiter admits at most maxRequests checks per window.
C11_AtomicCounting ==
    \A n \in Counted :
        /\ {flights[m].hits : m \in SameWindow(n)} = 1..Cardinality(SameWindow(n))
        /\ Cardinality({m \in SameWindow(n) : flights[m].first}) = 1
        /\ \A m \in Counted :
              (CounterOf(flights[m]) = CounterOf(flights[n])
                  /\ flights[m].until < flights[n].until)
                => flights[n].at >= flights[m].until
        /\ \A L \in FlightLimiters :
              Cardinality({m \in SameWindow(n) :
                              /\ flights[m].limiter = L
                              /\ flights[m].stage = "decided"
                              /\ flights[m].admitted}) <= MaxOf(L)

\* C11's case: with the shared store, checks of the same limiter on two
\* instances were both waiting for their decision when a third check of the
\* window was rejected.
C11_Witness ==
    /\ redis
    /\ Len(flights) = 3
    /\ flights[1].limiter = "global" /\ flights[1].stage = "counted"
    /\ flights[2].limiter = "global" /\ flights[2].stage = "counted"
    /\ flights[1].inst # flights[2].inst
    /\ flights[3].limiter = "global" /\ flights[3].stage = "decided"
    /\ ~flights[3].admitted
    /\ flights[3].until = flights[1].until


-----------------------------------------------------------------------------
(* The proxy handlers' claims, under SpecProxy.                            *)

\* The request in the chain has passed the global gate and, in a strict route
\* group, the group's own gate.
GatesPassed ==
    /\ "global" \in req.passed
    /\ req.group \in StrictLimiters => req.group \in req.passed

\* C13: the handler of a request (its cache lookup, upstream call and cache
\* write) runs only after every gate of the request has admitted it; a
\* request answered 429 has no handler run, and no step taken while it is in
\* the chain reads or changes the cache.
C13_LimitBeforeWork ==
    /\ []((rateLimitEnabled /\ work.id = sent /\ sent > 0) => GatesPassed)
    /\ []((req.stage = "done" /\ req.status = 429) => work.id # sent)
    /\ [][(rateLimitEnabled /\ now' = now
              /\ (work' # work \/ memoryCache' # memoryCache
                    \/ redisStore' # redisStore \/ lastSet' # lastSet))
            => (GatesPassed /\ req.status # 429)]_vars

\* C13's case: the routes gate rejected a request after an earlier request
\* had been served through the cache and the upstream.
C13_Witness ==
    /\ req.stage = "done" /\ req.status = 429
    /\ lastCheck.limiter = "routes"
    /\ work.id > 0 /\ work.id # sent
    /\ work.trail = <<"get:miss", "upstream:ok", "set", "reply">>

\* C14, as stated: in a handler's run the upstream call comes right after a
\* cache lookup that gave absent, and the cache write comes right after an
\* upstream call that succeeded and before any reply is sent.
C14_CacheAsideOrder ==
    \A i \in DOMAIN work.trail :
        /\ work.trail[i] \in {"upstream:ok", "upstream:failed"}
              => (i > 1 /\ work.trail[i - 1] = "get:miss")
        /\ work.trail[i] = "set"
              => /\ i > 1 /\ work.trail[i - 1] = "upstream:ok"
                 /\ \A j \in 1..(i - 1) : work.trail[j] # "reply"

\* The cache holds an entry for key k that a handler stored and whose TTL has
\* not run out.
Populated(k) == k \in DOMAIN lastSet /\ now < lastSet[k].deadline

\* The step is an upstream call.
UpstreamCalled ==
    /\ Len(work'.trail) = Len(work.trail) + 1
    /\ work'.trail[Len(work'.trail)] \in {"upstream:ok", "upstream:failed"}

\* C15, as stated: once a request has populated the cache for a key, no
\* request with that key calls the upstream before the TTL runs out,
\* whatever JSON value was stored.
C15_HitSavesUpstream ==
    [][UpstreamCalled => ~Populated(work'.key)]_vars

\* The same for the values JavaScript takes for true.
HitSavesUpstreamWhenTruthy ==
    [][(UpstreamCalled /\ Populated(work'.key))
          => ~Truthy(lastSet[work'.key].value)]_vars

\* The handler's run has ended.
Ended == work.pc \in {"finished", "exited"}

\* C16, as stated: a request whose upstream call failed is answered once,
\* with the status of its failure class: an upstream 4xx with the same
\* status, another upstream status with 502, a timeout with 504, no
\* connection with 503.
C16_FailuresClassified ==
    (Ended /\ work.err \in UpstreamErrors) =>
        /\ Len(work.replies) = 1
        /\ (work.err.response /\ work.err.status >= 400 /\ work.err.status < 500)
              => work.replies[1] = work.err.status
        /\ (work.err.response /\ work.err.status >= 500) => work.replies[1] = 502
        /\ (~work.err.response /\ work.err.code = "ECONNABORTED")
              => work.replies[1] = 504
        /\ (~work.err.response /\ work.err.code = "ECONNREFUSED")
              => work.replies[1] = 503

\* C17, as stated: the gateway process keeps running after an upstream call
\* has failed.
C17_SurvivesUpstreamFailure ==
    work.err \in UpstreamErrors => alive

\* C19, as stated: a request whose upstream call timed out is answered with
\* the gateway-timeout status, and a reply served from the cache carries an
\* entry whose TTL has not run out.
C19_TimeoutDistinct ==
    /\ (Ended /\ work.err = AxiosNoResponse("ECONNABORTED"))
          => work.replies = <<504>>
    /\ (work.pc = "finished" /\ work.id = sent /\ work.replies = <<200>>
            /\ work.trail = <<"get:hit", "reply">>)
          => (Populated(work.key) /\ work.data = lastSet[work.key].value)

\* C21, as stated: a handler that answered 400 for a missing parameter did
\* nothing else for the request: no cache lookup, no upstream call, no cache
\* write.
C21_ValidationStops ==
    (work.replies # <<>> /\ work.replies[1] = 400) => work.trail = <<"reply">>

-----------------------------------------------------------------------------
(* errorHandler's claim, under SpecErrorHandler.                           *)

\* C18: errorHandler answers an error exactly once; for an axios error with a
\* response of status s the reply's status is s when 400 <= s < 500 and 502
\* otherwise, with no response and code ECONNABORTED or ETIMEDOUT it is 504,
\* with no response and another code 503; for any other error it is 500.
C18_StatusMapping ==
    replies # <<>> =>
        /\ Len(replies) = 1
        /\ (fault.isAxiosError = "true" /\ fault.response
                /\ fault.status >= 400 /\ fault.status < 500)
              => replies[1] = fault.status
        /\ (fault.isAxiosError = "true" /\ fault.response
                /\ ~(fault.status >= 400 /\ fault.status < 500))
              => replies[1] = 502
        /\ (fault.isAxiosError = "true" /\ ~fault.response
                /\ fault.code \in {"ECONNABORTED", "ETIMEDOUT"})
              => replies[1] = 504
        /\ (fault.isAxiosError = "true" /\ ~fault.response
                /\ fault.code \notin {"ECONNABORTED", "ETIMEDOUT"})
              => replies[1] = 503
        /\ fault.isAxiosError # "true" => replies[1] = 500

\* C18's case: an upstream answer of exactly 400 was passed on as 400.
C18_Witness ==
    /\ fault = ErrObj("true", TRUE, 400, "ETIMEDOUT")
    /\ replies = <<400>>


-----------------------------------------------------------------------------
(* The cache key's claim, under SpecKeys.                                  *)

\* The logical request of a body: its operation's parameter values, whatever
\* the order and the spelling of the fields.
Logical(b) ==
    [origin |-> <<b.origin.lat, b.origin.lng>>,
     destination |-> <<b.destination.lat, b.destination.lng>>,
     travelMode |-> TravelModeOf(b),
     via |-> IF b.viaField = "none" THEN <<>> ELSE <<b.via.lat, b.via.lng>>]

BothKeyed == keyed[1] # NoKey /\ keyed[2] # NoKey

\* C22, as stated: two bodies that are the same logical request get the same
\* cache key, from the key of google-routes.ts and from the key of part_003.
C22_KeyDeterminism ==
    (BothKeyed /\ Logical(bodies[1]) = Logical(bodies[2])) => keyed[1] = keyed[2]

\* Bodies whose JSON text presents the fields the same way get the same key,
\* and a travelMode left out is keyed as DRIVE.
SameKeyWhenSamePresentation ==
    (BothKeyed /\ [bodies[1] EXCEPT !.travelMode = TravelModeOf(bodies[1])]
                    = [bodies[2] EXCEPT !.travelMode = TravelModeOf(bodies[2])])
        => keyed[1] = keyed[2]


-----------------------------------------------------------------------------
(* The shutdown's claim, under SpecShutdown.                               *)

\* C27: when close() has returned, the client (when there is one) has quit
\* and the local map is empty, so that every get on the local backend gives
\* absent; and the shutdown ends within ForceExitMs of the signal, whether
\* close() returns, fails or stays pending: the process is never still
\* running at that instant, and it exits no later.
C27_CloseAndBoundedWait ==
    /\ shutdown.phase = "closed" =>
          /\ lastOp.op = "close" /\ ~lastOp.raised
          /\ redis => closed
          /\ memoryCache = EmptyMap
          /\ ~redis => \A k \in Keys : Get(k).value = JNull
    /\ ShuttingDown => (alive /\ now < shutdown.at + ForceExitMs)
    /\ shutdown.phase = "exited" =>
          (~alive /\ shutdown.exitAt <= shutdown.at + ForceExitMs)

\* C27's case: quit() on a store that stopped answering stayed pending, and
\* the timer ended the process ForceExitMs after the signal.
C27_Witness ==
    /\ redis /\ ~redisUp /\ ~closed
    /\ lastSet # EmptyMap
    /\ shutdown.phase = "exited" /\ shutdown.code = 1
    /\ shutdown.at > 0
    /\ shutdown.exitAt = shutdown.at + ForceExitMs

\* close() on the local backend emptied a map that held entries.
LocalStoreCleared ==
    /\ ~redis /\ shutdown.phase = "closed"
    /\ lastOp.op = "close" /\ memoryCache = EmptyMap


-----------------------------------------------------------------------------
(* The limiter and an unavailable store, under SpecOutage.                 *)

\* The step is a check made while the shared store does not answer.
CheckDuringOutage ==
    /\ redis /\ ~RedisOk
    /\ lastCheck' # lastCheck /\ lastCheck'.limiter # "none"

\* C28, as stated: a check made while the shared store is unavailable is
\* decided as the limiter's fixed window decides it: admitted while the
\* checks of the window are at most maxRequests, answered 429 beyond.
C28_LimiterFallback ==
    [][CheckDuringOutage =>
          LET L == lastCheck'.limiter
              n == checks'[L][lastCheck'.client].n
          IN  /\ lastCheck'.admitted = (n <= MaxOf(L))
              /\ lastCheck'.status = (IF n <= MaxOf(L) THEN 0 ELSE 429)]_vars

-----------------------------------------------------------------------------
(* The documented endpoints, under SpecLimiter.                            *)

\* The endpoint groups the documentation lists; "directions" stands for the
\* routers under /api/google, which index.ts does not mount.
Documented == {"bus", "lta", "routes", "directions"}

\* C30, as stated: a request to a documented endpoint that has been answered
\* was not answered by the 404 handler.
C30_EveryEndpointServed ==
    (req.stage = "done" /\ req.group \in Documented) => req.status # 404

\* The part of C30 that holds: the mounted groups never reach the 404
\* handler, and every request that does has passed the global limiter when
\* rate limiting is enabled.
MountedServed ==
    /\ (req.stage = "done" /\ req.group \in Mounted) => req.status # 404
    /\ (req.stage = "done" /\ req.status = 404 /\ rateLimitEnabled)
          => "global" \in req.passed


-----------------------------------------------------------------------------
(* The bucket's window, under SpecOutage.                                  *)

\* The ends a window of the model can have.
WindowEnds ==
    {t + w : t \in {k * LimiterStepMs : k \in 0..(MaxLimiterTime \div LimiterStepMs)},
             w \in WindowChoices \cup {StrictWindowMs}}

\* The last check was limiter L's for client c, in the window of c's bucket
\* that ends at u, and that window is still open.
CheckedIn(L, c, u) ==
    /\ lastCheck.limiter = L /\ lastCheck.client = c
    /\ lastCheck.status \in {0, 429}
    /\ Bucket(L, c).until = u

\* C31: within one window of a bucket, once a check is rejected every later
\* check of that window is rejected, so an admission after a rejection is in
\* a window that began later; while a window is open a check keeps its end
\* and raises the count by one, and the first check of a new window reads 1.
C31_NoBlockedState ==
    /\ \A L \in Limiters : \A c \in Clients : \A u \in WindowEnds :
          []((CheckedIn(L, c, u) /\ lastCheck.status = 429)
                => [](CheckedIn(L, c, u) => lastCheck.status = 429))
    /\ [][\A L \in Limiters : \A c \in Clients :
            (CheckBy(L) /\ lastCheck'.client = c /\ lastCheck'.status \in {0, 429}) =>
                IF Count(L, c) > 0
                THEN /\ Bucket(L, c)'.until = Bucket(L, c).until
                     /\ Count(L, c)' = Count(L, c) + 1
                ELSE /\ Count(L, c)' = 1
                     /\ Bucket(L, c)'.until = now + WindowOf(L)]_vars

\* C31's case, inside a window: a check is rejected with a count two above
\* the limit of the local counter, so the check before it in the window was
\* rejected too.
C31_Witness ==
    /\ ~redis /\ lastCheck.limiter = "global" /\ lastCheck.status = 429
    /\ lastCheck.count = rlMax + 2


-----------------------------------------------------------------------------
(* The handlers' cache writes and replies, under SpecRouters.              *)

\* The handler's upstream call failed, or its answer carried a status the
\* handler does not accept.
UpstreamFailed(w) ==
    \/ \E i \in DOMAIN w.trail : w.trail[i] = "upstream:failed"
    \/ w.api \in {"REQUEST_DENIED"}
    \/ w.api = "ZERO_RESULTS" /\ req.group = "places"

\* C32: a handler whose upstream call failed, or whose Google answer carried
\* a status other than OK (or ZERO_RESULTS in the directions handler), calls
\* set nowhere after it, and its steps from the failure on leave the local
\* map and the shared store as they were.
C32_NoWriteOnFailure ==
    /\ []((work.id = sent /\ UpstreamFailed(work)) =>
            \A i, j \in DOMAIN work.trail :
                (work.trail[i] = "upstream:ok" \/ work.trail[i] = "upstream:failed")
                /\ j > i => work.trail[j] # "set")
    /\ [][(work'.id = sent /\ sent' = sent /\ work' # work /\ UpstreamFailed(work)')
            => (memoryCache' = memoryCache /\ redisStore' = redisStore
                /\ lastSet' = lastSet)]_vars

\* C32's case: the directions handler found an entry of another request in
\* the cache, its upstream answered REQUEST_DENIED, and it replied 400 with
\* the entry still there.
C32_Witness ==
    /\ work.id = sent /\ req.group = "directions" /\ work.api = "REQUEST_DENIED"
    /\ req.stage = "done" /\ req.status = 400
    /\ Get(KeyOf("places", TRUE)).value # JNull

\* C32's other case: an upstream call that failed in the places handler, which
\* replied 500 with the cache as it was.
FailedCallAnswered ==
    /\ work.id = sent /\ req.group = "places" /\ work.err \in UpstreamErrors
    /\ req.stage = "done" /\ req.status = 500
    /\ Get(KeyOf("directions", TRUE)).value # JNull


-----------------------------------------------------------------------------
(* The order and the end of the shutdown, under SpecShutdownFair.          *)

\* The step calls cacheService.close(): it returns, throws or stays pending.
CloseCalled ==
    \/ lastOp' # lastOp /\ lastOp'.op = "close"
    \/ shutdown.phase # "waiting" /\ shutdown'.phase = "waiting"

\* The clock of the model reaches the instant the timer of the shutdown at
\* hand is due.
TimerCovered ==
    \E n \in 0..(MaxShutdownTime \div ShutdownStepMs) :
        /\ n * ShutdownStepMs >= ForceExitMs
        /\ shutdown.at + n * ShutdownStepMs <= MaxShutdownTime

\* C33: a process that received the signal exits, at the latest when the
\* timer set ForceExitMs after the signal fires (for every signal whose timer
\* falls inside the time the model covers); close() is called only from the
\* callback of server.close, after the server has closed; the exit code is 0
\* only after the server closed and close() returned without an error, and it
\* is 1 after an error of close() or when the timer fired.
C33_ShutdownTerminates ==
    /\ (ShuttingDown /\ TimerCovered)
          ~> (shutdown.phase = "exited" /\ shutdown.exitAt <= shutdown.at + ForceExitMs)
    /\ [][CloseCalled => shutdown.phase = "closing"]_vars
    /\ [][shutdown'.phase = "closing" => shutdown.phase \in {"draining", "closing"}]_vars
    /\ []((shutdown.phase = "exited" /\ shutdown.code = 0) =>
            /\ lastOp.op = "close" /\ ~lastOp.raised
            /\ redis => closed)
    /\ [](shutdown.phase = "exited" =>
            /\ shutdown.code \in {0, 1}
            /\ shutdown.code = 1 =>
                  \/ lastOp.op = "close" /\ lastOp.raised
                  \/ shutdown.exitAt = shutdown.at + ForceExitMs)

\* C33's case: with a shared store that answers, the server closed, close()
\* returned and the process exited with code 0 before the timer was due.
C33_Witness ==
    /\ redis /\ closed /\ lastOp.op = "close" /\ ~lastOp.raised
    /\ shutdown.phase = "exited" /\ shutdown.code = 0
    /\ shutdown.exitAt < shutdown.at + ForceExitMs

\* C33's other case: close() was rejected and the catch block exited with 1.
CloseErrorExit ==
    /\ shutdown.phase = "exited" /\ shutdown.code = 1
    /\ lastOp.op = "close" /\ lastOp.raised
    /\ shutdown.exitAt < shutdown.at + ForceExitMs

-----------------------------------------------------------------------------
(* The startup gate, under SpecStartup.                                    *)

\* Every credential is set.
AllSet == \A c \in Credentials : boot.creds[c] # ""

\* C34: with a credential empty, validation fails, the process exits with
\* code 1, and the server never listens and no request is received; with the
\* four set, validation passes and the process does not exit at startup.
C34_StartupGate ==
    /\ [](~AllSet =>
            /\ boot.phase \in {"start", "exited"}
            /\ sent = 0 /\ req = Idle)
    /\ [](boot.phase = "exited" => (~AllSet /\ boot.code = 1 /\ ~alive))
    /\ [](AllSet => (alive /\ boot.phase \in {"start", "validated", "listening"}))
    /\ [][(boot.phase = "start" /\ boot' # boot) =>
            boot'.phase = (IF AllSet THEN "validated" ELSE "exited")]_vars
    /\ [](sent > 0 => boot.phase = "listening")

\* C34's case: only the Google key is empty, and the process exited with
\* code 1 before it listened.
C34_Witness ==
    /\ Errors(boot.creds) = {"googleKey"}
    /\ boot.phase = "exited" /\ boot.code = 1 /\ ~alive /\ sent = 0

\* C34's other case: the four credentials are set, the server listens and a
\* request was served.
StartedAndServing ==
    /\ AllSet /\ boot.phase = "listening"
    /\ req.stage = "done" /\ req.status = 200


-----------------------------------------------------------------------------
(* The keys of different requests, under SpecDirectionsKeys.               *)

\* The handler has computed the key of both requests.
BothDirectionsKeyed == \A i \in {1, 2} : keyed[i] # NoDirectionsKey

\* C35, as stated: two requests that hand different parameters to the
\* upstream have different cache keys.
C35_NoSharedKey ==
    (BothDirectionsKeyed /\ ForwardedDirections(bodies[1]) # ForwardedDirections(bodies[2]))
        => keyed[1] # keyed[2]

\* The part of C35 that holds: two requests whose values hold no separator
\* and that differ in origin, destination or mode have different keys.
KeysApartOnMainParameters ==
    (/\ BothDirectionsKeyed
     /\ \A i \in {1, 2} : Len(bodies[i].origin) = 1 /\ Len(bodies[i].destination) = 1
     /\ \E f \in {"origin", "destination", "mode"} : bodies[1][f] # bodies[2][f])
        => keyed[1] # keyed[2]

\* Two requests that differ only in avoid have one key.
SharedKeyOnAvoid ==
    /\ BothDirectionsKeyed /\ keyed[1] = keyed[2]
    /\ bodies[1].avoid # bodies[2].avoid

\* Two requests with different origins and destinations have one key.
SharedKeyOnSeparator ==
    /\ BothDirectionsKeyed /\ keyed[1] = keyed[2]
    /\ bodies[1].avoid = bodies[2].avoid
    /\ bodies[1].origin # bodies[2].origin

-----------------------------------------------------------------------------
(* Where a cached answer comes from, under SpecRace.                       *)

\* The step is handler i answering from the cache.
HitBy(i) == runs.run[i].pc = "lookup" /\ runs'.run[i].from = "cache"

-----------------------------------------------------------------------------
(* The replies of a handler, under SpecRouters.                            *)

\* The handler's run for the request at hand is over: it returned, or its
\* promise was rejected.
RunOver == work.id = sent /\ work.pc \in {"finished", "rejected", "exited"}

\* C37, as stated: a handler's run that is over has sent one response, and
\* no run attempts a response after one was sent.
C37_ExactlyOneResponse ==
    /\ RunOver => Len(work.replies) = 1
    /\ work.err # HeadersSent

\* The part of C37 that holds: the handlers of the routes, directions and
\* places routers send one response on every path.
OneResponseWhereReturned ==
    (RunOver /\ req.group \in {"routes", "directions", "places"})
        => (Len(work.replies) = 1 /\ work.err # HeadersSent /\ work.pc = "finished")

\* A bus handler answered 400 for a missing parameter, went on, and called
\* res.json a second time.
SecondResponseAttempted ==
    /\ req.group = "bus" /\ work.replies = <<400>> /\ work.err = HeadersSent

\* An LTA handler whose upstream call failed ended without a response.
NoResponseSent ==
    /\ req.group = "lta" /\ RunOver /\ work.replies = <<>>
    /\ work.err \in UpstreamErrors


-----------------------------------------------------------------------------
(* The frame of set and del on the local backend, under SpecCache.         *)

\* The step is a call of set or del on the local backend.
LocalWrite ==
    /\ ~redis /\ now' = now
    /\ lastOp'.op \in {"set", "del"}
    /\ lastOp' # lastOp \/ memoryCache' # memoryCache

\* C38: on the local backend a set(K, ..) or del(K) leaves every other key
\* as it was (its entry with its expiry, and what get gives for it); a set
\* that is carried out leaves under K the new value with the expiry of the
\* new ttl, whatever K held before, and a del leaves K absent.
C38_PerKeyFrame ==
    [][LocalWrite =>
          /\ \A k \in Keys \ {lastOp'.key} :
                /\ (k \in DOMAIN memoryCache') = (k \in DOMAIN memoryCache)
                /\ k \in DOMAIN memoryCache => memoryCache'[k] = memoryCache[k]
                /\ Get(k).value' = Get(k).value
          /\ (lastOp'.op = "set" /\ lastOp'.touched /\ lastOp'.error = "none") =>
                LET ser == Stringify(lastOp'.arg)
                IN  /\ lastOp'.key \in DOMAIN memoryCache'
                    /\ memoryCache'[lastOp'.key] =
                          [value |-> [defined |-> ser.defined, text |-> ser.text],
                           expiresAt |-> ExpiryOf(now, lastOp'.ttl)]
          /\ lastOp'.op = "del" => lastOp'.key \notin DOMAIN memoryCache']_vars

\* C38's case: a set on one key was carried out on the local map while the
\* other key held an entry stored earlier, with another value and an expiry
\* of its own that get still honours.
C38_Witness ==
    /\ ~redis /\ cacheEnabled
    /\ lastOp.op = "set" /\ lastOp.touched /\ lastOp.error = "none"
    /\ \E k \in Keys \ {lastOp.key} :
          /\ k \in DOMAIN memoryCache /\ lastOp.key \in DOMAIN memoryCache
          /\ memoryCache[k].expiresAt # memoryCache[lastOp.key].expiresAt
          /\ memoryCache[k].value # memoryCache[lastOp.key].value
          /\ Get(k).value # JNull

\* A del on the local map removed its key and left the other key's entry.
DelLeftOtherKey ==
    /\ ~redis /\ lastOp.op = "del" /\ lastOp.key \notin DOMAIN memoryCache
    /\ \E k \in Keys : k \in DOMAIN memoryCache

=============================================================================
